---- MODULE Spec2Model ----
(***************************************************************************)
(* A model of the tectonic-region probability and GMPE-weighting code of   *)
(* ShakeMap: shakemap/utils/probs.py, shakemap/utils/layers.py,            *)
(* shakemap/coremods/select.py and the version history of                  *)
(* shakemap/coremods/assemble.py.                                          *)
(*                                                                         *)
(* Numbers.  The Python code computes in floating point.  The model        *)
(* computes in exact rational arithmetic: a finite number is a pair        *)
(* <<n, d>> in lowest terms with d > 0.  Three further pairs stand for the *)
(* outcomes of a division by zero: numpy's nan and inf (array division)    *)
(* and Python's ZeroDivisionError (scalar float division).                 *)
(*                                                                         *)
(* State.  A function of the code that is pure is studied by one call: pc  *)
(* says whether the call has been made, args holds the function's name and *)
(* arguments, ret what it returned or raised.  The modules select and      *)
(* assemble read and write the event's 'current' directory: datadir holds  *)
(* the files of that directory that they touch, and is left alone by the   *)
(* pure functions.                                                         *)
(***************************************************************************)
EXTENDS Integers, Sequences, FiniteSets, TLC

VARIABLES pc, args, ret, datadir

vars == <<pc, args, ret, datadir>>

(***************************************************************************)
(* Bounds of the explored inputs.                                          *)
(***************************************************************************)
\* ramp abscissae x, x1, x2 range over the halves 0, 1/2, ..., MaxX
MaxX == 2
\* ramp ordinates p1, p2 range over 0, 1/PDen, ..., 1
PDen == 2
\* distances to a tectonic region and horizontal buffers range over 0 .. MaxDist
MaxDist == 2
\* earthquake depths and the depth bounds of layers range over 0 .. MaxDepth
MaxDepth == 2
\* vertical buffers range over 0 .. MaxVBuf
MaxVBuf == 1
\* a category is configured with 1 .. MaxLayers depth layers
MaxLayers == 2
\* subduction: depths and magnitudes range over 0 .. MaxSubDepth, Kagan angles
\* over the even numbers in that range
MaxSubDepth == 4
\* subduction: slab depths range over 1 .. MaxSlabDepth
MaxSlabDepth == 2
\* subduction: slab depth uncertainties and maximum interface depths range
\* over 0 .. MaxSlabErr
MaxSlabErr == 1
\* subduction: the configured ramps run from RampLo to RampHi (the lower
\* no-slab depth ramp from RampHi to RampHi + 1)
RampLo == 1
RampHi == 3

(***************************************************************************)
(* Rational arithmetic.                                                    *)
(***************************************************************************)
RECURSIVE GCD(_, _)
GCD(a, b) == IF b = 0 THEN a ELSE GCD(b, a % b)

Abs(n) == IF n < 0 THEN -n ELSE n

\* the fraction n/d (d # 0) in lowest terms with a positive denominator
Norm(n, d) ==
    LET g == GCD(Abs(n), Abs(d))
        s == IF d < 0 THEN -1 ELSE 1
    IN  <<(s * n) \div g, (s * d) \div g>>

\* the float of an integer
R(n) == <<n, 1>>

\* numpy: 0.0/0.0
NaN == <<0, 0>>
\* numpy: x/0.0 with x > 0, and with x < 0
Inf == <<1, 0>>
NegInf == <<-1, 0>>
\* Python: float division by zero raises; the exception replaces the value
ZeroDivisionError == <<0, -1>>

Fin(a) == a[2] > 0

\* the non-finite operand of an operation (nan, or the exception, propagates)
Bad(a, b) == IF ~Fin(a) THEN a ELSE b

RAdd(a, b) ==
    IF Fin(a) /\ Fin(b) THEN Norm(a[1] * b[2] + b[1] * a[2], a[2] * b[2])
    ELSE Bad(a, b)

RSub(a, b) ==
    IF Fin(a) /\ Fin(b) THEN Norm(a[1] * b[2] - b[1] * a[2], a[2] * b[2])
    ELSE Bad(a, b)

RMul(a, b) ==
    IF Fin(a) /\ Fin(b) THEN Norm(a[1] * b[1], a[2] * b[2])
    ELSE Bad(a, b)

\* a / b on Python floats
PyDiv(a, b) ==
    IF Fin(a) /\ Fin(b)
    THEN IF b[1] = 0 THEN ZeroDivisionError
         ELSE Norm(a[1] * b[2], a[2] * b[1])
    ELSE Bad(a, b)

\* a / b on numpy arrays and numpy floats
NpDiv(a, b) ==
    IF Fin(a) /\ Fin(b)
    THEN IF b[1] = 0
         THEN (IF a[1] = 0 THEN NaN ELSE IF a[1] > 0 THEN Inf ELSE NegInf)
         ELSE Norm(a[1] * b[2], a[2] * b[1])
    ELSE Bad(a, b)

\* comparisons; every comparison with a non-finite operand is false
RLe(a, b) == Fin(a) /\ Fin(b) /\ a[1] * b[2] <= b[1] * a[2]
RLt(a, b) == Fin(a) /\ Fin(b) /\ a[1] * b[2] < b[1] * a[2]
RGe(a, b) == RLe(b, a)
RGt(a, b) == RLt(b, a)

RAbs(a) == IF Fin(a) THEN <<Abs(a[1]), a[2]>> ELSE a

Zero == R(0)
One == R(1)

In01(a) == RLe(Zero, a) /\ RLe(a, One)

\* sum of a sequence of numbers, left to right
RECURSIVE RSum(_)
RSum(s) == IF Len(s) = 0 THEN Zero ELSE RAdd(RSum(SubSeq(s, 1, Len(s) - 1)), s[Len(s)])

(***************************************************************************)
(* What a call produced: nothing yet, a value, or an exception.            *)
(***************************************************************************)
Pending == [raised |-> "pending"]

Returned(v) == [raised |-> "none", value |-> v]

Raised(e) == [raised |-> e]

\* a file or directory that does not exist
NoFile == [exists |-> FALSE]

\* the event's current directory before select or assemble ran: no products
\* directory, no model_zc.conf, no shake_data.hdf
NoDatadir == [products |-> FALSE, model_zc |-> NoFile, shake_data |-> NoFile]

\* a scalar result: the value, or the exception that replaced it
Scalar(v) == IF v = ZeroDivisionError THEN Raised("ZeroDivisionError") ELSE Returned(v)

(***************************************************************************)
(* probs.py: get_probability                                               *)
(***************************************************************************)
\* get_probability with the intercept taken at x2 instead of x1
get_probability_intercept_at_x2(x, x1, p1, x2, p2) ==
    IF RLe(x, x1) THEN p1
    ELSE IF RGe(x, x2) THEN p2
    ELSE LET slope == PyDiv(RSub(p1, p2), RSub(x1, x2))
             intercept == RSub(p1, RMul(slope, x2))
         IN  RAdd(RMul(x, slope), intercept)

\* get_probability with the slope's denominator reversed
get_probability_slope_reversed(x, x1, p1, x2, p2) ==
    IF RLe(x, x1) THEN p1
    ELSE IF RGe(x, x2) THEN p2
    ELSE LET slope == PyDiv(RSub(p1, p2), RSub(x2, x1))
             intercept == RSub(p1, RMul(slope, x1))
         IN  RAdd(RMul(x, slope), intercept)

\* get_probability with both comparisons strict
get_probability_strict(x, x1, p1, x2, p2) ==
    IF RLt(x, x1) THEN p1
    ELSE IF RGt(x, x2) THEN p2
    ELSE LET slope == PyDiv(RSub(p1, p2), RSub(x1, x2))
             intercept == RSub(p1, RMul(slope, x1))
         IN  RAdd(RMul(x, slope), intercept)

get_probability(x, x1, p1, x2, p2) ==
    IF RLe(x, x1) THEN p1
    ELSE IF RGe(x, x2) THEN p2
    ELSE LET slope == PyDiv(RSub(p1, p2), RSub(x1, x2))
             intercept == RSub(p1, RMul(slope, x1))
         IN  RAdd(RMul(x, slope), intercept)

(***************************************************************************)
(* probs.py: get_region_probs                                              *)
(*                                                                         *)
(* config['tectonic_regions'] is a function from the configured categories *)
(* to their settings (rdict); strec_results.distance[r] is the STREC field  *)
(* that region_mapping names for category r.  The returned dict is modelled *)
(* as two functions: top, over the categories, and layers, over the keys    *)
(* '<category>_<i>', written <<category, i>>.  The pattern re.compile(region)*)
(* finds a key exactly when the key is a layer of that category: none of    *)
(* the four category names occurs inside another's layer keys.             *)
(***************************************************************************)
Regions == {"acr", "scr", "volcanic", "subduction"}

CrustRegions == Regions \ {"subduction"}

RegionOrder == <<"acr", "scr", "volcanic", "subduction">>

\* the "x2 = 100.0 #this doesn't matter" of the subduction branch
SubductionX2 == 100

\* region_prob whose subduction branch ramps over the configured buffer like
\* the other categories
region_prob_subduction_buffered(region, rdict, distance) ==
    get_probability(distance, Zero, One, rdict.horizontal_buffer, Zero)

\* lines 142-156: the probability of a category before normalisation
region_prob(region, rdict, distance) ==
    LET x1 == Zero
        p2 == Zero
        p1 == IF region = "subduction"
              THEN (IF RGt(distance, Zero) THEN Zero ELSE One)
              ELSE One
        x2 == IF region = "subduction" THEN R(SubductionX2) ELSE rdict.horizontal_buffer
    IN  get_probability(distance, x1, p1, x2, p2)

\* lines 165-169: the probability of depth layer i (from 0) before normalisation
p_layer(depth, rdict, i) ==
    LET x1 == rdict.min_depth[i + 1]
        p1 == One
        x2 == RAdd(rdict.max_depth[i + 1], rdict.vertical_buffer)
        p2 == Zero
    IN  get_probability(depth, x1, p1, x2, p2)

\* the layers of a category, as indices from 0
LayerIndices(rdict) == 0 .. (Len(rdict.min_depth) - 1)

\* lines 162-174: the layer probabilities of one category, divided by their
\* sum when that is positive
region_layer_probs(depth, rdict) ==
    LET raw == [i \in LayerIndices(rdict) |-> p_layer(depth, rdict, i)]
        probsum == RSum([j \in 1 .. Len(rdict.min_depth) |-> raw[j - 1]])
    IN  IF RGt(probsum, Zero)
        THEN [i \in LayerIndices(rdict) |-> PyDiv(raw[i], probsum)]
        ELSE raw

\* the configured categories in a fixed order
ConfiguredSeq(config) == SelectSeq(RegionOrder, LAMBDA r : r \in DOMAIN config)

\* line 180: the sum of the categories' probabilities before normalisation
region_probsum(strec_results, config) ==
    LET rs == ConfiguredSeq(config)
    IN  RSum([j \in 1 .. Len(rs) |->
                region_prob(rs[j], config[rs[j]], strec_results.distance[rs[j]])])

LayerKeys(config) ==
    UNION {{<<r, i>> : i \in LayerIndices(config[r])} : r \in DOMAIN config \ {"subduction"}}

\* the sum of a category's entries of a function over layer keys
LayerSum(layers, r, rdict) ==
    RSum([j \in 1 .. Len(rdict.min_depth) |-> layers[<<r, j - 1>>]])

\* get_region_probs that merges the layer probabilities into region_probs
\* before the final sum, so that probsum counts them too
get_region_probs_sum_with_layers(depth, strec_results, config, npdiv) ==
    LET rs == ConfiguredSeq(config)
        lay == [k \in LayerKeys(config) |-> region_layer_probs(depth, config[k[1]])[k[2]]]
        probsum == RAdd(region_probsum(strec_results, config),
                        RSum([j \in 1 .. Len(rs) |->
                                IF rs[j] = "subduction" THEN Zero
                                ELSE LayerSum(lay, rs[j], config[rs[j]])]))
        div(a, b) == IF npdiv THEN NpDiv(a, b) ELSE PyDiv(a, b)
        top == [r \in DOMAIN config |->
                  div(region_prob(r, config[r], strec_results.distance[r]), probsum)]
        layers == [k \in LayerKeys(config) |-> RMul(lay[k], top[k[1]])]
    IN  IF probsum = Zero /\ ~npdiv
        THEN Raised("ZeroDivisionError")
        ELSE Returned([top |-> top, layers |-> layers])

\* npdiv: whether the final division is numpy's (STREC's numbers are numpy
\* floats and reach probsum) or Python's; they differ only for probsum = 0
get_region_probs(depth, strec_results, config, npdiv) ==
    LET probsum == region_probsum(strec_results, config)
        div(a, b) == IF npdiv THEN NpDiv(a, b) ELSE PyDiv(a, b)
        top == [r \in DOMAIN config |->
                  div(region_prob(r, config[r], strec_results.distance[r]), probsum)]
        layers == [k \in LayerKeys(config) |->
                     RMul(region_layer_probs(depth, config[k[1]])[k[2]], top[k[1]])]
    IN  IF probsum = Zero /\ ~npdiv
        THEN Raised("ZeroDivisionError")
        ELSE Returned([top |-> top, layers |-> layers])

(***************************************************************************)
(* probs.py: get_subduction_probs                                          *)
(*                                                                         *)
(* subcfg is config['subduction']: a ramp [x1, p1, x2, p2] under each of   *)
(* the keys p_int_hypo, p_int_kagan, p_int_sz, p_int_mag,                  *)
(* p_int_dep_no_slab_upper, p_int_dep_no_slab_lower, p_crust_slab and      *)
(* p_crust_hypo, and the numbers default_slab_depth and p_kagan_default.   *)
(***************************************************************************)
\* lines 224-232
p_int_hypo(strec_results, depth, subcfg) ==
    LET dz == RAbs(RSub(depth, strec_results.SlabModelDepth))
        x1 == RAdd(subcfg.p_int_hypo.x1, strec_results.SlabModelDepthUncertainty)
        x2 == RAdd(subcfg.p_int_hypo.x2, strec_results.SlabModelDepthUncertainty)
    IN  get_probability(dz, x1, subcfg.p_int_hypo.p1, x2, subcfg.p_int_hypo.p2)

\* p_int_kagan that evaluates the ramp whatever the Kagan angle is
p_int_kagan_ramp_always(strec_results, subcfg) ==
    get_probability(strec_results.KaganAngle, subcfg.p_int_kagan.x1,
                    subcfg.p_int_kagan.p1, subcfg.p_int_kagan.x2,
                    subcfg.p_int_kagan.p2)

\* lines 234-242; np.isfinite(kagan) is Fin
p_int_kagan(strec_results, subcfg) ==
    IF Fin(strec_results.KaganAngle)
    THEN get_probability(strec_results.KaganAngle, subcfg.p_int_kagan.x1,
                         subcfg.p_int_kagan.p1, subcfg.p_int_kagan.x2,
                         subcfg.p_int_kagan.p2)
    ELSE subcfg.p_kagan_default

\* lines 244-250
p_int_sz(strec_results, depth, subcfg) ==
    LET x1 == RAdd(strec_results.SlabModelMaximumDepth, subcfg.p_int_sz.x1)
        x2 == RAdd(strec_results.SlabModelMaximumDepth, subcfg.p_int_sz.x2)
    IN  get_probability(depth, x1, subcfg.p_int_sz.p1, x2, subcfg.p_int_sz.p2)

\* lines 258-262
p_int_mag(mag, subcfg) ==
    get_probability(mag, subcfg.p_int_mag.x1, subcfg.p_int_mag.p1,
                    subcfg.p_int_mag.x2, subcfg.p_int_mag.p2)

\* lines 267-271
p_int_depth_upper(depth, subcfg) ==
    get_probability(depth, subcfg.p_int_dep_no_slab_upper.x1,
                    subcfg.p_int_dep_no_slab_upper.p1,
                    subcfg.p_int_dep_no_slab_upper.x2,
                    subcfg.p_int_dep_no_slab_upper.p2)

\* lines 274-278
p_int_depth_lower(depth, subcfg) ==
    get_probability(depth, subcfg.p_int_dep_no_slab_lower.x1,
                    subcfg.p_int_dep_no_slab_lower.p1,
                    subcfg.p_int_dep_no_slab_lower.x2,
                    subcfg.p_int_dep_no_slab_lower.p2)

\* line 280
p_int_depth(depth, subcfg) ==
    RAdd(p_int_depth_upper(depth, subcfg), p_int_depth_lower(depth, subcfg))

\* lines 211-282: the probability of interface, in either mode
p_int(strec_results, depth, mag, subcfg, above_slab) ==
    IF above_slab
    THEN RMul(RMul(p_int_hypo(strec_results, depth, subcfg),
                   p_int_kagan(strec_results, subcfg)),
              p_int_sz(strec_results, depth, subcfg))
    ELSE RMul(p_int_mag(mag, subcfg), p_int_depth(depth, subcfg))

\* get_subduction_probs whose intraslab term forgets the crustal one
get_subduction_probs_slab_without_crustal(strec_results, depth, mag, config, above_slab) ==
    LET subcfg == config.subduction
        slab_depth == IF above_slab THEN strec_results.SlabModelDepth
                      ELSE subcfg.default_slab_depth
        pint == p_int(strec_results, depth, mag, subcfg, above_slab)
        p_crust_slab == get_probability(RSub(depth, slab_depth), subcfg.p_crust_slab.x1,
                                        subcfg.p_crust_slab.p1, subcfg.p_crust_slab.x2,
                                        subcfg.p_crust_slab.p2)
        p_crust_hypo == get_probability(depth, subcfg.p_crust_hypo.x1,
                                        subcfg.p_crust_hypo.p1, subcfg.p_crust_hypo.x2,
                                        subcfg.p_crust_hypo.p2)
        p_crustal == RMul(RMul(RSub(One, pint), p_crust_slab), p_crust_hypo)
        p_slab == RSub(One, pint)
    IN  [crustal |-> p_crustal, interface |-> pint, intraslab |-> p_slab]

\* get_subduction_probs whose crustal term is not scaled by 1 - p_int
get_subduction_probs_crustal_unscaled(strec_results, depth, mag, config, above_slab) ==
    LET subcfg == config.subduction
        slab_depth == IF above_slab THEN strec_results.SlabModelDepth
                      ELSE subcfg.default_slab_depth
        pint == p_int(strec_results, depth, mag, subcfg, above_slab)
        p_crust_slab == get_probability(RSub(depth, slab_depth), subcfg.p_crust_slab.x1,
                                        subcfg.p_crust_slab.p1, subcfg.p_crust_slab.x2,
                                        subcfg.p_crust_slab.p2)
        p_crust_hypo == get_probability(depth, subcfg.p_crust_hypo.x1,
                                        subcfg.p_crust_hypo.p1, subcfg.p_crust_hypo.x2,
                                        subcfg.p_crust_hypo.p2)
        p_crustal == RMul(p_crust_slab, p_crust_hypo)
        p_slab == RSub(One, RAdd(pint, p_crustal))
    IN  [crustal |-> p_crustal, interface |-> pint, intraslab |-> p_slab]

get_subduction_probs(strec_results, depth, mag, config, above_slab) ==
    LET subcfg == config.subduction
        slab_depth == IF above_slab THEN strec_results.SlabModelDepth
                      ELSE subcfg.default_slab_depth
        pint == p_int(strec_results, depth, mag, subcfg, above_slab)
        p_crust_slab == get_probability(RSub(depth, slab_depth), subcfg.p_crust_slab.x1,
                                        subcfg.p_crust_slab.p1, subcfg.p_crust_slab.x2,
                                        subcfg.p_crust_slab.p2)
        p_crust_hypo == get_probability(depth, subcfg.p_crust_hypo.x1,
                                        subcfg.p_crust_hypo.p1, subcfg.p_crust_hypo.x2,
                                        subcfg.p_crust_hypo.p2)
        p_crustal == RMul(RMul(RSub(One, pint), p_crust_slab), p_crust_hypo)
        p_slab == RSub(One, RAdd(pint, p_crustal))
    IN  [crustal |-> p_crustal, interface |-> pint, intraslab |-> p_slab]

\* the dict returned, or the exception of a division inside a ramp
SubductionResult(probs) ==
    IF \E k \in DOMAIN probs : probs[k] = ZeroDivisionError
    THEN Raised("ZeroDivisionError")
    ELSE Returned(probs)

(***************************************************************************)
(* probs.py: get_probs                                                     *)
(*                                                                         *)
(* strec_results is what SubductionSelector.getSubductionType returned; it *)
(* is an input of the model.  config holds the sections tectonic_regions   *)
(* and subduction.  The returned region_probs is the dict of               *)
(* get_region_probs with the keys crustal, interface and intraslab added.  *)
(***************************************************************************)
get_probs(origin, config, strec_results, npdiv) ==
    LET depth == origin.depth
        mag == origin.mag
        region_probs == get_region_probs(depth, strec_results, config.tectonic_regions, npdiv)
        in_subduction == strec_results.TectonicRegion = "Subduction"
        above_slab == strec_results.SlabModelDepth # NaN
        subduction_probs ==
            SubductionResult(get_subduction_probs(strec_results, depth, mag, config,
                                                  above_slab))
        with(sub) == [region_probs |->
                         [top |-> region_probs.value.top,
                          layers |-> region_probs.value.layers,
                          crustal |-> sub.crustal,
                          interface |-> sub.interface,
                          intraslab |-> sub.intraslab],
                      strec_results |-> strec_results]
    IN  IF region_probs.raised # "none" THEN region_probs
        ELSE IF in_subduction
        THEN IF subduction_probs.raised # "none" THEN subduction_probs
             ELSE IF "subduction" \notin DOMAIN config.tectonic_regions
             THEN Raised("KeyError")
             ELSE Returned(with(
                    [k \in {"crustal", "interface", "intraslab"} |->
                        RMul(subduction_probs.value[k],
                             region_probs.value.top["subduction"])]))
        ELSE Returned(with([crustal |-> Zero, interface |-> Zero, intraslab |-> Zero]))

\* the concatenation of a sequence of sequences
RECURSIVE Concat(_)
Concat(ss) == IF Len(ss) = 0 THEN <<>> ELSE Concat(SubSeq(ss, 1, Len(ss) - 1)) \o ss[Len(ss)]

(***************************************************************************)
(* probs.py: get_weights                                                   *)
(*                                                                         *)
(* The keys of probs that re.compile(region + '_') finds are the layer     *)
(* keys <<region, i>> of that category; sorted() puts them in the order of *)
(* i (fewer than ten layers).  The returned tuple is the record            *)
(* [gmpelist, weightlist, strec_results].                                  *)
(***************************************************************************)
\* lines 39-57: what one pass of the loop over config['tectonic_regions']
\* adds to gmpelist and weightlist; tprobs is the dict get_probs returned,
\* of which lines 33-37 keep the entries > 0
category_weights(region, rdict, tprobs) ==
    IF region = "subduction"
    THEN [gmpes |->
            (IF RGt(tprobs.crustal, Zero) THEN rdict.crustal.gmpe ELSE <<>>) \o
            (IF RGt(tprobs.interface, Zero) THEN rdict.interface.gmpe ELSE <<>>) \o
            (IF RGt(tprobs.intraslab, Zero) THEN rdict.intraslab.gmpe ELSE <<>>),
          weights |->
            (IF RGt(tprobs.crustal, Zero) THEN <<tprobs.crustal>> ELSE <<>>) \o
            (IF RGt(tprobs.interface, Zero) THEN <<tprobs.interface>> ELSE <<>>) \o
            (IF RGt(tprobs.intraslab, Zero) THEN <<tprobs.intraslab>> ELSE <<>>)]
    ELSE LET n == Len(rdict.min_depth)
             keylist == SelectSeq([j \in 1 .. n |-> j - 1],
                                  LAMBDA i : RGt(tprobs.layers[<<region, i>>], Zero))
         IN  IF Len(keylist) > 0
             THEN [gmpes |-> rdict.gmpe,
                   weights |-> [j \in 1 .. Len(keylist) |->
                                  tprobs.layers[<<region, keylist[j]>>]]]
             ELSE [gmpes |-> <<>>, weights |-> <<>>]

\* lines 38-60: the lists built from the dict of get_probs
weight_lists(config, tprobs, strec_results) ==
    LET rs == ConfiguredSeq(config.tectonic_regions)
        added == [j \in 1 .. Len(rs) |->
                    category_weights(rs[j], config.tectonic_regions[rs[j]], tprobs)]
    IN  [gmpelist |-> Concat([j \in 1 .. Len(rs) |-> added[j].gmpes]),
         weightlist |-> Concat([j \in 1 .. Len(rs) |-> added[j].weights]),
         strec_results |-> strec_results]

\* lines 32-60: after the call of get_probs, got
weights_of(config, got) ==
    IF got.raised # "none" THEN got
    ELSE Returned(weight_lists(config, got.value.region_probs, got.value.strec_results))

\* lines 15-60
get_weights(origin, config, strec_results, npdiv) ==
    weights_of(config, get_probs(origin, config, strec_results, npdiv))

(***************************************************************************)
(* select.py: get_gmpes_from_depth, get_gmpes_from_probs,                  *)
(* get_gmpes_by_region                                                     *)
(*                                                                         *)
(* A numpy array is a sequence.  A function that returns (gmpe_list,       *)
(* gmpe_weights) returns the record [gmpes, weights].                      *)
(***************************************************************************)
\* array * scalar and array / scalar
Scale(ws, c) == [j \in 1 .. Len(ws) |-> RMul(ws[j], c)]
ArrayDiv(ws, c) == [j \in 1 .. Len(ws) |-> NpDiv(ws[j], c)]

\* depth_weight whose ramps include their far ends, depth = min_depth - vbuf
\* and depth = max_depth + vbuf
depth_weight_closed_ramp(depth, region, ig) ==
    LET vbuf == region.vertical_buffer
        mn == region.min_depth[ig]
        mx == region.max_depth[ig]
    IN  IF RGe(depth, mn) /\ RLe(depth, mx) THEN <<One>>
        ELSE IF RGe(depth, RSub(mn, vbuf)) /\ RLt(depth, mn)
             THEN <<RSub(One, PyDiv(RSub(mn, depth), vbuf))>>
        ELSE IF RLe(depth, RAdd(mx, vbuf)) /\ RGt(depth, mx)
             THEN <<RSub(One, PyDiv(RSub(depth, mx), vbuf))>>
        ELSE <<>>

\* depth_weight that tests the ramps, both their ends included, before the
\* layer's own bounds
depth_weight_ramp_first(depth, region, ig) ==
    LET vbuf == region.vertical_buffer
        mn == region.min_depth[ig]
        mx == region.max_depth[ig]
    IN  IF RGe(depth, RSub(mn, vbuf)) /\ RLe(depth, mn)
        THEN <<RSub(One, PyDiv(RSub(mn, depth), vbuf))>>
        ELSE IF RLe(depth, RAdd(mx, vbuf)) /\ RGe(depth, mx)
             THEN <<RSub(One, PyDiv(RSub(depth, mx), vbuf))>>
        ELSE IF RGe(depth, mn) /\ RLe(depth, mx) THEN <<One>>
        ELSE <<>>

\* depth_weight that gives every layer within reach the weight 1
depth_weight_no_ramp(depth, region, ig) ==
    LET vbuf == region.vertical_buffer
        mn == region.min_depth[ig]
        mx == region.max_depth[ig]
    IN  IF RGt(depth, RSub(mn, vbuf)) /\ RLt(depth, RAdd(mx, vbuf)) THEN <<One>>
        ELSE <<>>

\* lines 327-340: what layer ig (from 1) appends to gmpe_weights for this
\* depth: one weight, or nothing
depth_weight(depth, region, ig) ==
    LET vbuf == region.vertical_buffer
        mn == region.min_depth[ig]
        mx == region.max_depth[ig]
    IN  IF RGe(depth, mn) /\ RLe(depth, mx) THEN <<One>>
        ELSE IF RGt(depth, RSub(mn, vbuf)) /\ RLt(depth, mn)
             THEN <<RSub(One, PyDiv(RSub(mn, depth), vbuf))>>
        ELSE IF RLt(depth, RAdd(mx, vbuf)) /\ RGt(depth, mx)
             THEN <<RSub(One, PyDiv(RSub(depth, mx), vbuf))>>
        ELSE <<>>

\* get_gmpes_from_depth without the test of lines 342-344: no layer in reach
\* gives empty arrays
get_gmpes_from_depth_empty_allowed(depth, region) ==
    LET n == Len(region.gmpe)
        gmpe_list == Concat([ig \in 1 .. n |->
                        IF depth_weight(depth, region, ig) = <<>> THEN <<>>
                        ELSE <<region.gmpe[ig]>>])
        gmpe_weights == Concat([ig \in 1 .. n |-> depth_weight(depth, region, ig)])
    IN  Returned([gmpes |-> gmpe_list,
                  weights |-> ArrayDiv(gmpe_weights, RSum(gmpe_weights))])

\* lines 322-347
get_gmpes_from_depth(depth, region) ==
    LET n == Len(region.gmpe)
        \* lines 326-347 for the weight (or none) found for each layer
        selected(found) ==
            LET gmpe_list == Concat([ig \in 1 .. n |->
                                IF found[ig] = <<>> THEN <<>> ELSE <<region.gmpe[ig]>>])
                gmpe_weights == Concat(found)
            IN  IF \E j \in 1 .. Len(gmpe_weights) : gmpe_weights[j] = ZeroDivisionError
                THEN Raised("ZeroDivisionError")
                ELSE IF Len(gmpe_list) < 1
                THEN Raised("RuntimeError")
                ELSE Returned([gmpes |-> gmpe_list,
                               weights |-> ArrayDiv(gmpe_weights, RSum(gmpe_weights))])
    IN  selected([ig \in 1 .. n |-> depth_weight(depth, region, ig)])

get_gmpes_from_probs(depth, sreg, cfg) ==
    LET cr_prob == sreg.probabilities.crustal
        if_prob == sreg.probabilities.interface
        is_prob == sreg.probabilities.intraslab
    IN  IF cr_prob = Zero /\ if_prob = Zero /\ is_prob = Zero
        THEN Returned([gmpes |-> <<>>, weights |-> <<>>])
        ELSE Returned(
          [gmpes |->
             (IF RGt(cr_prob, Zero) THEN cfg.subduction.crustal.gmpe ELSE <<>>) \o
             (IF RGt(if_prob, Zero) THEN cfg.subduction.interface.gmpe ELSE <<>>) \o
             (IF RGt(is_prob, Zero) THEN cfg.subduction.intraslab.gmpe ELSE <<>>),
           weights |->
             (IF RGt(cr_prob, Zero) THEN <<cr_prob>> ELSE <<>>) \o
             (IF RGt(if_prob, Zero) THEN <<if_prob>> ELSE <<>>) \o
             (IF RGt(is_prob, Zero) THEN <<is_prob>> ELSE <<>>)])

\* the regions STREC reports, in a fixed order
ReportedSeq(strec_tr) == SelectSeq(RegionOrder, LAMBDA r : r \in DOMAIN strec_tr)

\* lines 257-279: one pass of the loop of get_gmpes_by_region for region reg:
\* an exception, a skip (continue), or the arrays and the weight it adds
region_pass(reg, strec_tr, cfg, origin) ==
    IF reg \notin DOMAIN cfg THEN [raised |-> "RuntimeError", skip |-> FALSE]
    ELSE
    LET reg_dist == strec_tr[reg].distance
        reg_buff == IF reg = "subduction" THEN reg_dist ELSE cfg[reg].horizontal_buffer
        \* lines 267-279 for the set got and the weight of the region
        weighted(got, reg_weight) ==
            IF got.raised # "none" THEN [raised |-> got.raised, skip |-> FALSE]
            ELSE [raised |-> "none", skip |-> FALSE,
                  gmpes |-> got.value.gmpes,
                  weights |-> Scale(got.value.weights, reg_weight),
                  reg_weight |-> reg_weight]
    IN  IF RGt(reg_dist, reg_buff) THEN [raised |-> "none", skip |-> TRUE]
        ELSE weighted(IF reg = "subduction"
                      THEN get_gmpes_from_probs(origin.depth, strec_tr[reg], cfg)
                      ELSE get_gmpes_from_depth(origin.depth, cfg[reg]),
                      IF reg_buff # Zero THEN RSub(One, PyDiv(reg_dist, reg_buff))
                      ELSE One)

get_gmpes_by_region(strec_tr, cfg, origin) ==
    LET regs == ReportedSeq(strec_tr)
        \* lines 281-287 for the arrays of the passes that were not skipped
        normalised(gmpe_list, gmpe_weights, total_weight, region_weights) ==
            IF Len(gmpe_list) < 1
            THEN Raised("RuntimeError")
            ELSE Returned([gmpe_list |-> gmpe_list,
                           gmpe_weights |-> ArrayDiv(gmpe_weights, total_weight),
                           region_weights |-> region_weights])
        \* lines 257-287 for the passes of the loop
        looped(pass) ==
            LET kept == SelectSeq(pass, LAMBDA q : ~q.skip)
            IN  IF \E j \in 1 .. Len(pass) : pass[j].raised # "none"
                THEN Raised(pass[CHOOSE j \in 1 .. Len(pass) :
                                   /\ pass[j].raised # "none"
                                   /\ \A i \in 1 .. (j - 1) : pass[i].raised = "none"].raised)
                ELSE normalised(
                        Concat([j \in 1 .. Len(kept) |-> kept[j].gmpes]),
                        Concat([j \in 1 .. Len(kept) |-> kept[j].weights]),
                        RSum([j \in 1 .. Len(kept) |-> kept[j].reg_weight]),
                        [r \in {regs[j] : j \in {i \in 1 .. Len(regs) : ~pass[i].skip}} |->
                            pass[CHOOSE j \in 1 .. Len(regs) : regs[j] = r].reg_weight])
    IN  looped([j \in 1 .. Len(regs) |-> region_pass(regs[j], strec_tr, cfg, origin)])

(***************************************************************************)
(* select.py: validate_config                                              *)
(*                                                                         *)
(* The ConfigObj read from select.conf is a dict of dicts.  A scalar of    *)
(* the file is written [raw |-> v], v being the value that cfg_float,      *)
(* cfg_float_list, gmpe_list or float makes of its text; a section is a    *)
(* function from its keys.  validate_config replaces every scalar by its   *)
(* value, in place, or raises ValidateError.                               *)
(***************************************************************************)
Leaf(v) == [raw |-> v]

\* isinstance(mydict[key], dict)
IsDict(v) == DOMAIN v # {"raw"}

\* lines 208-217: the keys a scalar may have
ValidLeafKeys ==
    {"horizontal_buffer", "vertical_buffer", "gmpe", "min_depth", "max_depth",
     "layer_dir", "x1", "x2", "p1", "p2", "p_kagan_default"}

InstallDirLayers == "<INSTALL_DIR>/data/layers"

\* line 215: str.replace('<INSTALL_DIR>', install_path) on the layer_dir
\* values of the model, of which one holds the pattern
replace_install_dir(text, install_path) ==
    IF text = InstallDirLayers THEN install_path \o "/data/layers" ELSE text

RECURSIVE validate_config(_, _)
validate_config(mydict, install_path) ==
    LET item == [key \in DOMAIN mydict |->
            IF IsDict(mydict[key]) THEN validate_config(mydict[key], install_path)
            ELSE IF key = "layer_dir"
                 THEN Returned(replace_install_dir(mydict[key].raw, install_path))
            ELSE IF key \in ValidLeafKeys THEN Returned(mydict[key].raw)
            ELSE Raised("ValidateError")]
    IN  IF \E key \in DOMAIN mydict : item[key].raised # "none"
        THEN Raised("ValidateError")
        ELSE Returned([key \in DOMAIN mydict |-> item[key].value])

(***************************************************************************)
(* select.py: SelectModule.execute, from the validation of the             *)
(* configuration to zc_conf.write()                                        *)
(*                                                                         *)
(* layer_order is the order of the keys of config['layers'] in the file;   *)
(* strec_out is what get_tectonic_regions returned and layer_distances     *)
(* what get_layer_distances returns for the event: both are inputs of the  *)
(* model.                                                                  *)
(***************************************************************************)
\* line 93: min_dist_to_layer = 999999.9
FarAway == Norm(9999999, 10)

\* line 94: nearest_layer_name = None
NoLayer == "None"

NotScanned == [min_dist_to_layer |-> FarAway, nearest_layer_name |-> NoLayer]

\* the loop of lines 101-113 that also takes a layer at the same distance as
\* the nearest so far
RECURSIVE scan_layers_latest_on_ties(_, _, _, _)
scan_layers_latest_on_ties(layer_order, geo_layers, i, scan) ==
    IF i > Len(layer_order) THEN scan
    ELSE LET layer == layer_order[i]
             ldist == geo_layers[layer]
             found == [min_dist_to_layer |-> ldist, nearest_layer_name |-> layer]
         IN  IF layer = "layer_dir" \/ layer \notin DOMAIN geo_layers
             THEN scan_layers_latest_on_ties(layer_order, geo_layers, i + 1, scan)
             ELSE IF RLe(ldist, scan.min_dist_to_layer)
             THEN scan_layers_latest_on_ties(layer_order, geo_layers, i + 1, found)
             ELSE scan_layers_latest_on_ties(layer_order, geo_layers, i + 1, scan)

\* lines 101-113: the loop over config['layers'], from its i-th key on, scan
\* being min_dist_to_layer and nearest_layer_name so far
RECURSIVE scan_layers(_, _, _, _)
scan_layers(layer_order, geo_layers, i, scan) ==
    IF i > Len(layer_order) THEN scan
    ELSE LET layer == layer_order[i]
             ldist == geo_layers[layer]
             found == [min_dist_to_layer |-> ldist, nearest_layer_name |-> layer]
         IN  IF layer = "layer_dir" \/ layer \notin DOMAIN geo_layers
             THEN scan_layers(layer_order, geo_layers, i + 1, scan)
             ELSE IF RLt(ldist, scan.min_dist_to_layer)
             THEN (IF ldist = Zero THEN found
                   ELSE scan_layers(layer_order, geo_layers, i + 1, found))
             ELSE scan_layers(layer_order, geo_layers, i + 1, scan)

\* lines 93-113
find_nearest_layer(config, layer_order, layer_distances) ==
    IF "layers" \in DOMAIN config /\ "layer_dir" \in DOMAIN config.layers
    THEN LET layer_dir == config.layers.layer_dir
             geo_layers == IF layer_dir # "" /\ layer_dir # "None"
                           THEN layer_distances ELSE << >>
         IN  scan_layers(layer_order, geo_layers, 1, NotScanned)
    ELSE NotScanned

\* the test of lines 118-121 without the buffer
layer_applies_whatever_buffer(config, scan) ==
    scan.nearest_layer_name # NoLayer

\* lines 118-121
layer_applies(config, scan) ==
    /\ scan.nearest_layer_name # NoLayer
    /\ \/ scan.min_dist_to_layer = Zero
       \/ RLe(scan.min_dist_to_layer,
              config.layers[scan.nearest_layer_name].horizontal_buffer)

\* lines 128-134: cfg_tr after the layer's settings were written into it
override_regions(cfg_tr, lcfg) ==
    [layer \in DOMAIN cfg_tr |->
        IF layer \in DOMAIN lcfg \ {"horizontal_buffer"}
        THEN [element \in DOMAIN cfg_tr[layer] \cup DOMAIN lcfg[layer] |->
                IF element \in DOMAIN lcfg[layer] THEN lcfg[layer][element]
                ELSE cfg_tr[layer][element]]
        ELSE cfg_tr[layer]]

\* lines 140-147
layer_weight(min_dist_to_layer, layer_buff) ==
    IF layer_buff = Zero THEN One
    ELSE RSub(One, PyDiv(min_dist_to_layer, layer_buff))

\* lines 154-156 left out: the lists are blended at distance 0 too
combine_always_blended(min_dist_to_layer, lwgt, global, layer) ==
    [gmpe_list |-> global.gmpe_list \o layer.gmpe_list,
     weight_list |-> Scale(global.gmpe_weights, RSub(One, lwgt))
                        \o Scale(layer.gmpe_weights, lwgt)]

\* line 159 without the factor of the global weights
combine_global_unscaled(min_dist_to_layer, lwgt, global, layer) ==
    IF min_dist_to_layer = Zero
    THEN [gmpe_list |-> layer.gmpe_list, weight_list |-> layer.gmpe_weights]
    ELSE [gmpe_list |-> global.gmpe_list \o layer.gmpe_list,
          weight_list |-> global.gmpe_weights \o Scale(layer.gmpe_weights, lwgt)]

\* lines 154-160: the final lists from those of the global configuration and
\* those of the layer
combine(min_dist_to_layer, lwgt, global, layer) ==
    IF min_dist_to_layer = Zero
    THEN [gmpe_list |-> layer.gmpe_list, weight_list |-> layer.gmpe_weights]
    ELSE [gmpe_list |-> global.gmpe_list \o layer.gmpe_list,
          weight_list |-> Scale(global.gmpe_weights, RSub(One, lwgt))
                             \o Scale(layer.gmpe_weights, lwgt)]

\* what execute has when it reaches zc_conf.write(): the lists written, the
\* mechanism, the region weights, cfg_tr and the result of the layer scan
Written(lists, region_weights, cfg_tr, scan, strec_out) ==
    Returned([gmpe_list |-> lists.gmpe_list, weight_list |-> lists.weight_list,
              mechanism |-> strec_out.focal_mech,
              region_weights |-> region_weights, cfg_tr |-> cfg_tr,
              min_dist_to_layer |-> scan.min_dist_to_layer,
              nearest_layer_name |-> scan.nearest_layer_name])

\* execute_layer that writes the global set when the selection for the layer
\* raises
execute_layer_falls_back(global, layer, new_tr, lcfg, scan, strec_out) ==
    IF layer.raised # "none"
    THEN Written([gmpe_list |-> global.value.gmpe_list,
                  weight_list |-> global.value.gmpe_weights],
                 global.value.region_weights, new_tr, scan, strec_out)
    ELSE IF "horizontal_buffer" \notin DOMAIN lcfg
    THEN Raised("UnboundLocalError")
    ELSE Written(combine(scan.min_dist_to_layer,
                         layer_weight(scan.min_dist_to_layer, lcfg.horizontal_buffer),
                         global.value, layer.value),
                 layer.value.region_weights, new_tr, scan, strec_out)

\* lines 138-189: the layer's GMPE set is selected and combined with the global
\* one; layer is what get_gmpes_by_region gave for the overridden cfg_tr
execute_layer(global, layer, new_tr, lcfg, scan, strec_out) ==
    IF layer.raised # "none" THEN layer
    ELSE IF "horizontal_buffer" \notin DOMAIN lcfg
    THEN Raised("UnboundLocalError")
    ELSE Written(combine(scan.min_dist_to_layer,
                         layer_weight(scan.min_dist_to_layer, lcfg.horizontal_buffer),
                         global.value, layer.value),
                 layer.value.region_weights, new_tr, scan, strec_out)

\* lines 115-189: global is what get_gmpes_by_region gave for the global
\* configuration and scan the result of the loop over the layers
execute_scanned(global, scan, config, strec_out, org) ==
    LET cfg_tr == config.tectonic_regions
        lcfg == config.layers[scan.nearest_layer_name]
    IN  IF global.raised # "none" THEN global
        ELSE IF scan.nearest_layer_name # NoLayer /\ scan.min_dist_to_layer # Zero
                  /\ "horizontal_buffer" \notin DOMAIN lcfg
        THEN Raised("KeyError")
        ELSE IF ~layer_applies(config, scan)
        THEN Written([gmpe_list |-> global.value.gmpe_list,
                      weight_list |-> global.value.gmpe_weights],
                     global.value.region_weights, cfg_tr, scan, strec_out)
        ELSE IF ~((DOMAIN lcfg \ {"horizontal_buffer"}) \subseteq DOMAIN cfg_tr)
        THEN Raised("KeyError")
        ELSE execute_layer(global,
                           get_gmpes_by_region(strec_out.tectonic_regions,
                                               override_regions(cfg_tr, lcfg), org),
                           override_regions(cfg_tr, lcfg), lcfg, scan, strec_out)

\* lines 76-189: config is the validated configuration
execute_validated(config, layer_order, strec_out, layer_distances, org) ==
    execute_scanned(get_gmpes_by_region(strec_out.tectonic_regions,
                                        config.tectonic_regions, org),
                    find_nearest_layer(config, layer_order, layer_distances),
                    config, strec_out, org)

\* lines 71-189
execute(raw_config, install_path, layer_order, strec_out, layer_distances, org) ==
    LET validated == validate_config(raw_config, install_path)
    IN  IF validated.raised # "none" THEN validated
        ELSE execute_validated(validated.value, layer_order, strec_out,
                               layer_distances, org)

\* lines 164-187: the contents of zc_conf, the GMPE set and the mechanism
zc_conf(written) ==
    [exists |-> TRUE, gmpes |-> written.gmpe_list, weights |-> written.weight_list,
     mechanism |-> written.mechanism]

\* zc_conf.write() that keeps the GMPE set of the file it finds and adds the
\* new one to it
write_keeping_old(old, new) ==
    IF old.exists
    THEN [exists |-> TRUE, gmpes |-> old.gmpes \o new.gmpes,
          weights |-> old.weights \o new.weights, mechanism |-> new.mechanism]
    ELSE new

\* lines 165-167 and 189: zc_conf.write(); zc_conf is a new ConfigObj that is
\* only given the file's name, so the file old is replaced by the contents new
write(old, new) == new

\* lines 60-65 and 164-189: the event's directory after a run of execute that
\* ended with result: the products of earlier runs are removed before the
\* configuration is read, model_zc.conf is written when nothing raised
select_datadir(dir, result) ==
    [products |-> FALSE,
     model_zc |-> IF result.raised = "none"
                  THEN write(dir.model_zc, zc_conf(result.value))
                  ELSE dir.model_zc,
     shake_data |-> dir.shake_data]

(***************************************************************************)
(* layers.py: update_config_regions                                        *)
(*                                                                         *)
(* config is the validated configuration, layer_order the order of the     *)
(* keys of config['layers'] and layer_distances what get_layer_distances   *)
(* returns for the event.  The function changes config in place and        *)
(* returns it: the value returned is the configuration after the call.     *)
(***************************************************************************)
\* lines 128-141: the loop over config['layers'], from its i-th key on: the
\* layer the event is inside, or none; a layer without a distance reaches
\* line 133, where the name self is not defined
RECURSIVE find_inside_layer(_, _, _, _)
find_inside_layer(layer_order, geo_layers, i, min_dist_to_layer) ==
    IF i > Len(layer_order) THEN Returned(NoLayer)
    ELSE LET layer == layer_order[i]
             ldist == geo_layers[layer]
         IN  IF layer = "layer_dir"
             THEN find_inside_layer(layer_order, geo_layers, i + 1, min_dist_to_layer)
             ELSE IF layer \notin DOMAIN geo_layers
             THEN Raised("NameError")
             ELSE IF RLt(ldist, min_dist_to_layer)
             THEN (IF ldist = Zero THEN Returned(layer)
                   ELSE find_inside_layer(layer_order, geo_layers, i + 1, ldist))
             ELSE find_inside_layer(layer_order, geo_layers, i + 1, min_dist_to_layer)

\* lines 145-148: config['tectonic_regions'] after each region of the layer
\* was given the layer's settings
replace_regions(cfg_tr, layer_config) ==
    [region \in DOMAIN cfg_tr \cup (DOMAIN layer_config \ {"horizontal_buffer"}) |->
        IF region \in DOMAIN layer_config \ {"horizontal_buffer"}
        THEN layer_config[region]
        ELSE cfg_tr[region]]

\* lines 118-148
update_config_regions(config, layer_order, layer_distances) ==
    LET layer_dir == config.layers.layer_dir
        geo_layers == IF layer_dir # "" /\ layer_dir # "None"
                      THEN layer_distances ELSE << >>
        inside == IF "layers" \in DOMAIN config /\ "layer_dir" \in DOMAIN config.layers
                  THEN find_inside_layer(layer_order, geo_layers, 1, FarAway)
                  ELSE Returned(NoLayer)
    IN  IF inside.raised # "none" THEN inside
        ELSE IF inside.value = NoLayer THEN Returned(config)
        ELSE Returned([config EXCEPT
                 !.tectonic_regions = replace_regions(@, config.layers[inside.value])])

(***************************************************************************)
(* assemble.py: AssembleModule.execute, the version history                *)
(*                                                                         *)
(* A line of the history is <<timestamp, originator, version, comment>>.   *)
(* A version history is the dictionary the container holds: << >> (no      *)
(* key) or [history |-> lines].  The container class is not part of the    *)
(* sources: a container file holds the history it was created from.        *)
(***************************************************************************)
\* the version given to the first line of a new history (lines 234, 241)
FirstVersion == 1

\* ShakeMapInputContainer.createFromInput, as far as the history goes
createFromInput(history) == [exists |-> TRUE, version_history |-> history]

\* ShakeMapInputContainer.load(...).getVersionHistory()
getVersionHistory(file) == file.version_history

\* lines 78-84: the comment of this run; a.comment is what parseArgs set
assemble_comment(a) ==
    IF a.comment # "None" THEN a.comment
    ELSE IF a.isatty THEN a.typed ELSE ""

\* lines 195-197: the backup directories, the highest name first; the names
\* are backup0001, backup0002, ...: the order of the names is that of the
\* numbers
RECURSIVE backup_dirs(_)
backup_dirs(backups) ==
    IF backups = {} THEN << >>
    ELSE LET last == CHOOSE b \in backups : \A c \in backups : c.number <= b.number
         IN  <<last>> \o backup_dirs(backups \ {last})

\* a history step that adds a line with the next version to the history of
\* shake_data.hdf, as the step does for a backup
version_history_appending(dir, backups, timestamp, originator, comment) ==
    IF dir.shake_data.exists /\ "history" \in DOMAIN getVersionHistory(dir.shake_data)
    THEN LET history == getVersionHistory(dir.shake_data).history
         IN  Returned([history |-> Append(history,
                 <<timestamp, originator, history[Len(history)][3] + 1, comment>>)])
    ELSE Returned([history |-> <<<<timestamp, originator, FirstVersion, comment>>>>])

\* lines 198-242: the history this run stores
version_history(dir, backups, timestamp, originator, comment) ==
    IF Len(backup_dirs(backups)) > 0
    THEN LET history == getVersionHistory(backup_dirs(backups)[1].shake_data)
             version == backup_dirs(backups)[1].number + 1
             new_line == <<timestamp, originator, version, comment>>
         IN  IF "history" \notin DOMAIN history THEN Raised("KeyError")
             ELSE Returned([history |-> Append(history.history, new_line)])
    ELSE IF dir.shake_data.exists
    THEN LET history == getVersionHistory(dir.shake_data)
         IN  IF "history" \in DOMAIN history
             THEN IF Len(history.history) = 0 THEN Raised("IndexError")
                  ELSE LET new_line == <<timestamp, originator,
                                         history.history[Len(history.history)][3],
                                         comment>>
                       IN  Returned([history |->
                               [history.history EXCEPT ![Len(history.history)] = new_line]])
             ELSE Returned([history |-> <<<<timestamp, originator, FirstVersion, comment>>>>])
    ELSE Returned([history |-> <<<<timestamp, originator, FirstVersion, comment>>>>])

\* lines 51-264: the exception of the run, if any, and the event directory
\* after it.  a.fails names the check that fails: the event.xml of line 73,
\* the configuration of lines 144-148, the vs30 file of lines 153-161.
AssembleModule_execute(a, dir) ==
    LET cleared == [dir EXCEPT !.products = FALSE]
        history == version_history(cleared, a.backups, a.timestamp, a.originator,
                                   assemble_comment(a))
    IN  IF a.fails = "event.xml"
        THEN [ret |-> Raised("FileNotFoundError"), dir |-> dir]
        ELSE IF a.fails = "config"
        THEN [ret |-> Raised("RuntimeError"), dir |-> cleared]
        ELSE IF a.fails = "vs30file"
        THEN [ret |-> Raised("FileNotFoundError"), dir |-> cleared]
        ELSE IF history.raised # "none"
        THEN [ret |-> history, dir |-> cleared]
        ELSE [ret |-> Returned("None"),
              dir |-> [cleared EXCEPT !.shake_data = createFromInput(history.value)]]

(***************************************************************************)
(* Calls of get_probability.                                               *)
(***************************************************************************)
RampXs == {Norm(k, 2) : k \in 0 .. 2 * MaxX}

RampPs == {Norm(k, PDen) : k \in 0 .. PDen}

RampArgs ==
    {[fn |-> "get_probability", x |-> x, x1 |-> x1, p1 |-> p1, x2 |-> x2, p2 |-> p2] :
        x \in RampXs, x1 \in RampXs, x2 \in RampXs, p1 \in RampPs, p2 \in RampPs}

InitRamp == pc = "call" /\ args \in RampArgs /\ ret = Pending /\ datadir = NoDatadir

CallGetProbability ==
    /\ pc = "call"
    /\ args.fn = "get_probability"
    /\ ret' = Scalar(get_probability(args.x, args.x1, args.p1, args.x2, args.p2))
    /\ pc' = "done"
    /\ UNCHANGED <<args, datadir>>

NextRamp == CallGetProbability

SpecRamp == InitRamp /\ [][NextRamp]_vars

(***************************************************************************)
(* Calls of get_region_probs.                                              *)
(***************************************************************************)
Dists == {R(k) : k \in 0 .. MaxDist}

Depths == {R(k) : k \in 0 .. MaxDepth}

VBufs == {R(k) : k \in 0 .. MaxVBuf}

\* depth layers: min_depth[i] <= max_depth[i] <= min_depth[i + 1]
LayerTables ==
    {t \in UNION {[min_depth : [1 .. n -> Depths], max_depth : [1 .. n -> Depths]] :
                     n \in 1 .. MaxLayers} :
        /\ \A i \in 1 .. Len(t.min_depth) : RLe(t.min_depth[i], t.max_depth[i])
        /\ \A i \in 1 .. (Len(t.min_depth) - 1) : RLe(t.max_depth[i], t.min_depth[i + 1])}

CrustRdict(hb, t, vb) ==
    [horizontal_buffer |-> hb, min_depth |-> t.min_depth, max_depth |-> t.max_depth,
     vertical_buffer |-> vb]

\* the subduction settings are not read by get_region_probs
SubductionRdictUnread == [horizontal_buffer |-> Zero]

ConfiguredSets == (SUBSET Regions) \ {{}}

\* one layer over all depths, no vertical buffer
WholeDepthTable == [min_depth |-> <<Zero>>, max_depth |-> <<R(MaxDepth)>>]

\* family 1: every set of categories, every distance and horizontal buffer
\* of every category, one depth layer
RegionArgsByDistance(a) ==
    \E S \in ConfiguredSets :
    \E d \in [S -> Dists], hb \in [S \ {"subduction"} -> Dists] :
        a = [fn |-> "get_region_probs", depth |-> Zero,
             strec_results |-> [distance |-> d],
             config |-> [r \in S |-> IF r = "subduction" THEN SubductionRdictUnread
                                     ELSE CrustRdict(hb[r], WholeDepthTable, Zero)]]

\* family 2: every set of categories inside their regions, every depth, layer
\* table and vertical buffer (the categories sharing the table)
RegionArgsByDepth(a) ==
    \E S \in ConfiguredSets :
    \E depth \in Depths, t \in LayerTables, vb \in VBufs :
        a = [fn |-> "get_region_probs", depth |-> depth,
             strec_results |-> [distance |-> [r \in S |-> Zero]],
             config |-> [r \in S |-> IF r = "subduction" THEN SubductionRdictUnread
                                     ELSE CrustRdict(R(MaxDist), t, vb)]]

InitRegion ==
    /\ pc = "call"
    /\ (RegionArgsByDistance(args) \/ RegionArgsByDepth(args))
    /\ ret = Pending
    /\ datadir = NoDatadir

CallGetRegionProbs ==
    /\ pc = "call"
    /\ args.fn = "get_region_probs"
    /\ \E npdiv \in BOOLEAN :
          ret' = get_region_probs(args.depth, args.strec_results, args.config, npdiv)
    /\ pc' = "done"
    /\ UNCHANGED <<args, datadir>>

NextRegion == CallGetRegionProbs

SpecRegion == InitRegion /\ [][NextRegion]_vars

(***************************************************************************)
(* Calls of get_subduction_probs.                                          *)
(***************************************************************************)
SubDepths == {R(k) : k \in 0 .. MaxSubDepth}

SlabDepths == {R(k) : k \in 1 .. MaxSlabDepth}

SlabErrs == {R(k) : k \in 0 .. MaxSlabErr}

KaganAngles == {NaN, Inf} \cup {R(2 * k) : k \in 0 .. (MaxSubDepth \div 2)}

\* a ramp from (x1, p1) to (x2, p2)
Ramp(x1, p1, x2, p2) == [x1 |-> x1, p1 |-> p1, x2 |-> x2, p2 |-> p2]

\* three ramps between x1 and x2: falling from 1 to 0, rising from 0 to 1,
\* and rising from 1/PDen to 1
Ramps(x1, x2) ==
    {Ramp(R(x1), One, R(x2), Zero), Ramp(R(x1), Zero, R(x2), One),
     Ramp(R(x1), Norm(1, PDen), R(x2), One)}

\* the ramps of the lower no-slab depth term: falling, rising, and the
\* ramp from 0 down to -1 that closes the trapezoid opened by the upper term
LowerRamps ==
    Ramps(RampHi, RampHi + 1) \cup {Ramp(R(RampHi), Zero, R(RampHi + 1), R(-1))}

UnreadRamp == Ramp(Zero, Zero, Zero, Zero)

\* slab-present calls; the settings this mode does not read are fixed
SubArgsSlab(a) ==
    \E depth \in SubDepths, kagan \in KaganAngles, sd \in SlabDepths, err \in SlabErrs,
       mid \in SlabErrs, pkd \in RampPs, rs \in [1 .. 5 -> Ramps(RampLo, RampHi)] :
        a = [fn |-> "get_subduction_probs", above_slab |-> TRUE, depth |-> depth,
             mag |-> Zero,
             strec_results |-> [KaganAngle |-> kagan, SlabModelDepth |-> sd,
                                SlabModelDepthUncertainty |-> err,
                                SlabModelMaximumDepth |-> mid],
             config |-> [subduction |->
                [default_slab_depth |-> Zero, p_kagan_default |-> pkd,
                 p_int_hypo |-> rs[1], p_int_kagan |-> rs[2], p_int_sz |-> rs[3],
                 p_int_mag |-> UnreadRamp, p_int_dep_no_slab_upper |-> UnreadRamp,
                 p_int_dep_no_slab_lower |-> UnreadRamp,
                 p_crust_slab |-> rs[4], p_crust_hypo |-> rs[5]]]]

\* slab-absent calls (SlabModelDepth is nan); the settings and STREC fields
\* this mode does not read are fixed
SubArgsNoSlab(a) ==
    \E depth \in SubDepths, mag \in SubDepths, dsd \in SlabDepths,
       lower \in LowerRamps, rs \in [1 .. 4 -> Ramps(RampLo, RampHi)] :
        a = [fn |-> "get_subduction_probs", above_slab |-> FALSE, depth |-> depth,
             mag |-> mag,
             strec_results |-> [KaganAngle |-> NaN, SlabModelDepth |-> NaN,
                                SlabModelDepthUncertainty |-> NaN,
                                SlabModelMaximumDepth |-> NaN],
             config |-> [subduction |->
                [default_slab_depth |-> dsd, p_kagan_default |-> Zero,
                 p_int_hypo |-> UnreadRamp, p_int_kagan |-> UnreadRamp,
                 p_int_sz |-> UnreadRamp,
                 p_int_mag |-> rs[1], p_int_dep_no_slab_upper |-> rs[2],
                 p_int_dep_no_slab_lower |-> lower,
                 p_crust_slab |-> rs[3], p_crust_hypo |-> rs[4]]]]

InitSubduction ==
    /\ pc = "call"
    /\ (SubArgsSlab(args) \/ SubArgsNoSlab(args))
    /\ ret = Pending
    /\ datadir = NoDatadir

CallGetSubductionProbs ==
    /\ pc = "call"
    /\ args.fn = "get_subduction_probs"
    /\ ret' = SubductionResult(get_subduction_probs(args.strec_results, args.depth,
                                                    args.mag, args.config, args.above_slab))
    /\ pc' = "done"
    /\ UNCHANGED <<args, datadir>>

NextSubduction == CallGetSubductionProbs

SpecSubduction == InitSubduction /\ [][NextSubduction]_vars

(***************************************************************************)
(* Calls of get_probs.                                                     *)
(***************************************************************************)
\* the values of TectonicRegion
TectonicLabels == {"Subduction", "Active", "Stable", "Volcanic"}

\* a subduction section with the same ramp under every key
ProbsSubCfg(rmp) ==
    [default_slab_depth |-> R(MaxSlabDepth), p_kagan_default |-> Norm(1, PDen),
     p_int_hypo |-> rmp, p_int_kagan |-> rmp, p_int_sz |-> rmp, p_int_mag |-> rmp,
     p_int_dep_no_slab_upper |-> rmp, p_int_dep_no_slab_lower |-> rmp,
     p_crust_slab |-> rmp, p_crust_hypo |-> rmp]

\* the slab fields of the classifier: all nan where there is no slab model
SlabFields(sd) ==
    IF sd = NaN
    THEN [SlabModelDepth |-> NaN, SlabModelDepthUncertainty |-> NaN,
          SlabModelMaximumDepth |-> NaN]
    ELSE [SlabModelDepth |-> sd, SlabModelDepthUncertainty |-> Zero,
          SlabModelMaximumDepth |-> sd]

\* every set of configured categories, every distance to each, every label,
\* with and without a slab model, no focal mechanism
ProbsArgs(a) ==
    \E S \in ConfiguredSets, label \in TectonicLabels :
    \E d \in [S -> Dists], depth \in Depths, sd \in {NaN} \cup SlabDepths,
       rmp \in Ramps(RampLo, RampHi) :
        a = [fn |-> "get_probs", origin |-> [depth |-> depth, mag |-> R(RampHi)],
             strec_results |->
                [TectonicRegion |-> label,
                 distance |-> [r \in Regions |-> IF r \in S THEN d[r] ELSE R(MaxDist)],
                 KaganAngle |-> NaN,
                 SlabModelDepth |-> SlabFields(sd).SlabModelDepth,
                 SlabModelDepthUncertainty |-> SlabFields(sd).SlabModelDepthUncertainty,
                 SlabModelMaximumDepth |-> SlabFields(sd).SlabModelMaximumDepth],
             config |->
                [tectonic_regions |->
                    [r \in S |-> IF r = "subduction" THEN SubductionRdictUnread
                                 ELSE CrustRdict(R(MaxDist), WholeDepthTable, Zero)],
                 subduction |-> ProbsSubCfg(rmp)]]

InitProbs ==
    /\ pc = "call"
    /\ ProbsArgs(args)
    /\ ret = Pending
    /\ datadir = NoDatadir

CallGetProbs ==
    /\ pc = "call"
    /\ args.fn = "get_probs"
    /\ \E npdiv \in BOOLEAN :
          ret' = get_probs(args.origin, args.config, args.strec_results, npdiv)
    /\ pc' = "done"
    /\ UNCHANGED <<args, datadir>>

NextProbs == CallGetProbs

SpecProbs == InitProbs /\ [][NextProbs]_vars

(***************************************************************************)
(* Calls of get_gmpes_by_region.                                           *)
(***************************************************************************)
\* the GMPE identifiers of the configuration, one per depth layer
GmpeNames ==
    [acr |-> <<"active_crustal_shallow", "active_crustal_deep", "active_crustal_deepest">>,
     scr |-> <<"stable_continental_shallow", "stable_continental_deep",
               "stable_continental_deepest">>,
     volcanic |-> <<"volcanic_shallow", "volcanic_deep", "volcanic_deepest">>]

SelectCrustRdict(r, hb, t, vb) ==
    [horizontal_buffer |-> hb, min_depth |-> t.min_depth, max_depth |-> t.max_depth,
     vertical_buffer |-> vb, gmpe |-> SubSeq(GmpeNames[r], 1, Len(t.min_depth))]

SelectSubductionRdict ==
    [crustal |-> [gmpe |-> <<"subduction_crustal">>],
     interface |-> [gmpe |-> <<"subduction_interface">>],
     intraslab |-> [gmpe |-> <<"subduction_slab">>]]

\* the sub-type probabilities STREC reports: all 0, or in [0,1] with sum 1
SubtypeProbs ==
    {pr \in [crustal : RampPs, interface : RampPs, intraslab : RampPs] :
        RAdd(RAdd(pr.crustal, pr.interface), pr.intraslab) \in {Zero, One}}

StrecRegion(r, d, pr) ==
    IF r = "subduction" THEN [distance |-> d, probabilities |-> pr] ELSE [distance |-> d]

\* the settings of the categories STREC does not report are not read
UnreportedRdict(r) ==
    IF r = "subduction" THEN SelectSubductionRdict
    ELSE SelectCrustRdict(r, Zero, WholeDepthTable, Zero)

\* the sub-type probabilities matter only when subduction is reported
SubtypeProbsFor(S) ==
    IF "subduction" \in S THEN SubtypeProbs
    ELSE {[crustal |-> Zero, interface |-> Zero, intraslab |-> Zero]}

\* family 1: every set of reported regions, every distance and horizontal
\* buffer of each, one depth layer
SelectArgsByDistance(a) ==
    \E S \in ConfiguredSets :
    \E d \in [S -> Dists], hb \in [S \ {"subduction"} -> Dists], pr \in SubtypeProbsFor(S) :
        a = [fn |-> "get_gmpes_by_region", origin |-> [depth |-> Zero],
             strec_tr |-> [r \in S |-> StrecRegion(r, d[r], pr)],
             cfg |-> [r \in Regions |->
                        IF r \in S \ {"subduction"}
                        THEN SelectCrustRdict(r, hb[r], WholeDepthTable, Zero)
                        ELSE UnreportedRdict(r)]]

\* family 2: every set of reported regions at distance 0, every depth, layer
\* table and vertical buffer (the categories sharing the table); with and
\* without the volcanic category in the configuration
SelectArgsByDepth(a) ==
    \E S \in ConfiguredSets, C \in {Regions, Regions \ {"volcanic"}} :
    \E depth \in Depths, t \in LayerTables, vb \in VBufs, pr \in SubtypeProbsFor(S) :
        a = [fn |-> "get_gmpes_by_region", origin |-> [depth |-> depth],
             strec_tr |-> [r \in S |-> StrecRegion(r, Zero, pr)],
             cfg |-> [r \in C |-> IF r = "subduction" THEN SelectSubductionRdict
                                  ELSE SelectCrustRdict(r, R(MaxDist), t, vb)]]

InitSelect ==
    /\ pc = "call"
    /\ (SelectArgsByDistance(args) \/ SelectArgsByDepth(args))
    /\ ret = Pending
    /\ datadir = NoDatadir

CallGetGmpesByRegion ==
    /\ pc = "call"
    /\ args.fn = "get_gmpes_by_region"
    /\ ret' = get_gmpes_by_region(args.strec_tr, args.cfg, args.origin)
    /\ pc' = "done"
    /\ UNCHANGED <<args, datadir>>

NextSelect == CallGetGmpesByRegion

SpecSelect == InitSelect /\ [][NextSelect]_vars

(***************************************************************************)
(* Calls of get_gmpes_from_depth.                                          *)
(***************************************************************************)
\* the depths 0, 1/2, 1, ..., MaxDepth + 1: inside, between and below the
\* layers, and inside their vertical buffers
HalfDepths == {Norm(k, 2) : k \in 0 .. (2 * MaxDepth + 2)}

\* every depth, layer table and vertical buffer of one category
DepthArgs(a) ==
    \E depth \in HalfDepths, t \in LayerTables, vb \in VBufs :
        a = [fn |-> "get_gmpes_from_depth", depth |-> depth,
             region |-> SelectCrustRdict("acr", R(MaxDist), t, vb)]

InitDepth ==
    /\ pc = "call"
    /\ DepthArgs(args)
    /\ ret = Pending
    /\ datadir = NoDatadir

CallGetGmpesFromDepth ==
    /\ pc = "call"
    /\ args.fn = "get_gmpes_from_depth"
    /\ ret' = get_gmpes_from_depth(args.depth, args.region)
    /\ pc' = "done"
    /\ UNCHANGED <<args, datadir>>

NextDepth == CallGetGmpesFromDepth

SpecDepth == InitDepth /\ [][NextDepth]_vars

(***************************************************************************)
(* Calls of get_weights.                                                   *)
(***************************************************************************)
\* the distances of the calls of get_weights: inside a region and one unit
\* away from it
WeightDists == {Zero, One}

\* the values of TectonicRegion of the calls of get_weights
WeightLabels == {"Subduction", "Active"}

\* a subduction section: the interface probability rises with magnitude and
\* falls with depth, the crustal one falls with depth; the ramps of the
\* slab-present mode are not read
WeightsSubCfg ==
    LET rising == Ramp(R(RampLo), Zero, R(RampHi), One)
        falling == Ramp(R(RampLo), One, R(RampHi), Zero)
    IN  [default_slab_depth |-> R(MaxSlabDepth), p_kagan_default |-> Zero,
         p_int_hypo |-> UnreadRamp, p_int_kagan |-> UnreadRamp, p_int_sz |-> UnreadRamp,
         p_int_mag |-> rising, p_int_dep_no_slab_upper |-> falling,
         p_int_dep_no_slab_lower |-> Ramp(R(RampHi), Zero, R(RampHi + 1), R(-1)),
         p_crust_slab |-> falling, p_crust_hypo |-> falling]

\* every set of configured categories, inside each or one unit away, every
\* depth, layer table and vertical buffer (the categories sharing the
\* table), a magnitude in the middle of the magnitude ramp, no slab model, no
\* focal mechanism
WeightsArgs(a) ==
    \E S \in ConfiguredSets, label \in WeightLabels :
    \E d \in [S -> WeightDists], depth \in Depths, t \in LayerTables, vb \in VBufs :
        a = [fn |-> "get_weights",
             origin |-> [depth |-> depth, mag |-> Norm(RampLo + RampHi, 2)],
             strec_results |->
                [TectonicRegion |-> label,
                 distance |-> [r \in Regions |-> IF r \in S THEN d[r] ELSE R(MaxDist)],
                 KaganAngle |-> NaN,
                 SlabModelDepth |-> NaN,
                 SlabModelDepthUncertainty |-> NaN,
                 SlabModelMaximumDepth |-> NaN],
             config |->
                [tectonic_regions |->
                    [r \in S |-> IF r = "subduction" THEN SelectSubductionRdict
                                 ELSE SelectCrustRdict(r, R(MaxDist), t, vb)],
                 subduction |-> WeightsSubCfg]]

InitWeights ==
    /\ pc = "call"
    /\ WeightsArgs(args)
    /\ ret = Pending
    /\ datadir = NoDatadir

CallGetWeights ==
    /\ pc = "call"
    /\ args.fn = "get_weights"
    /\ \E npdiv \in BOOLEAN :
          ret' = get_weights(args.origin, args.config, args.strec_results, npdiv)
    /\ pc' = "done"
    /\ UNCHANGED <<args, datadir>>

NextWeights == CallGetWeights

SpecWeights == InitWeights /\ [][NextWeights]_vars

(***************************************************************************)
(* Calls of SelectModule.execute.                                          *)
(***************************************************************************)
\* the layers of select.conf
LayerNames == {"california", "induced"}

\* the settings of each layer: california replaces the GMPE of acr, induced
\* takes the buffer of scr away
LayerSettings ==
    [california |-> [acr |-> [gmpe |-> Leaf(<<"special_california">>)]],
     induced |-> [scr |-> [horizontal_buffer |-> Leaf(Zero)]]]

\* the orders in which the file may list layer_dir and the layers
LayerOrders ==
    {<<"layer_dir">>, <<"layer_dir", "california">>, <<"layer_dir", "induced">>,
     <<"layer_dir", "california", "induced">>, <<"layer_dir", "induced", "california">>}

\* the sets of categories get_tectonic_regions reports to execute
ExecReported == {{"acr"}, {"scr"}, {"acr", "scr"}}

\* the horizontal buffers of acr in the global configuration
AcrBuffers == {One, R(MaxDist)}

RawCrustRdict(r, hb) ==
    [horizontal_buffer |-> Leaf(hb), vertical_buffer |-> Leaf(Zero),
     min_depth |-> Leaf(<<Zero>>), max_depth |-> Leaf(<<R(MaxDepth)>>),
     gmpe |-> Leaf(<<GmpeNames[r][1]>>)]

RawSubductionRdict ==
    [crustal |-> [gmpe |-> Leaf(<<"subduction_crustal">>)],
     interface |-> [gmpe |-> Leaf(<<"subduction_interface">>)],
     intraslab |-> [gmpe |-> Leaf(<<"subduction_slab">>)]]

\* the section tectonic_regions, acr having the buffer hb
RawTectonicRegions(hb) ==
    [r \in Regions |->
        IF r = "subduction" THEN RawSubductionRdict
        ELSE RawCrustRdict(r, IF r = "acr" THEN hb ELSE R(MaxDist))]

RawLayer(name, buff) ==
    [k \in {"horizontal_buffer"} \cup DOMAIN LayerSettings[name] |->
        IF k = "horizontal_buffer" THEN Leaf(buff) ELSE LayerSettings[name][k]]

\* the section layers: layer_dir and the layers named
RawLayers(dir, names, buff) ==
    [k \in {"layer_dir"} \cup names |->
        IF k = "layer_dir" THEN Leaf(dir) ELSE RawLayer(k, buff[k])]

StrecOut(S, d) ==
    [tectonic_regions |-> [r \in S |-> [distance |-> d[r]]], focal_mech |-> "ALL"]

ExecCall(config, layer_order, strec_out, layer_distances) ==
    [fn |-> "execute", config |-> config, install_path |-> "/home/shake",
     layer_order |-> layer_order, strec_out |-> strec_out,
     layer_distances |-> layer_distances, org |-> [depth |-> Zero]]

\* family 1: a layer directory; every order of the layers, every distance to
\* each layer that has a file, every buffer of each layer
ExecArgsLayers(a) ==
    \E layer_order \in LayerOrders, S \in ExecReported :
    LET names == {layer_order[i] : i \in 2 .. Len(layer_order)}
    IN  \E d \in [S -> Dists], hb \in AcrBuffers, G \in SUBSET LayerNames :
        \E ld \in [G -> Dists], buff \in [names -> Dists] :
            a = ExecCall([tectonic_regions |-> RawTectonicRegions(hb),
                          layers |-> RawLayers(InstallDirLayers, names, buff)],
                         layer_order, StrecOut(S, d), ld)

\* the configurations of family 2: without layers, without a usable layer
\* directory, with an unexpected scalar, with an unknown category
OtherConfigs ==
    LET tr == RawTectonicRegions(R(MaxDist))
        lay(dir) == RawLayers(dir, {"california"}, [california |-> Zero])
        with(f, key, v) == [k \in DOMAIN f \cup {key} |-> IF k = key THEN v ELSE f[k]]
    IN  {[config |-> [tectonic_regions |-> tr], layer_order |-> << >>],
         [config |-> [tectonic_regions |-> tr,
                      layers |-> [california |-> RawLayer("california", Zero)]],
          layer_order |-> <<"california">>],
         [config |-> [tectonic_regions |-> tr, layers |-> lay("None")],
          layer_order |-> <<"layer_dir", "california">>],
         [config |-> [tectonic_regions |-> tr, layers |-> lay("")],
          layer_order |-> <<"layer_dir", "california">>],
         [config |-> [tectonic_regions |-> with(tr, "acr", with(tr["acr"], "x3", Leaf(One)))],
          layer_order |-> << >>],
         [config |-> [tectonic_regions |-> with(tr, "acr", with(tr["acr"], "buffer", Leaf(One)))],
          layer_order |-> << >>],
         [config |-> [tectonic_regions |-> tr,
                      layers |-> with(lay(InstallDirLayers), "california",
                                      with(lay(InstallDirLayers)["california"], "p3", Leaf(One)))],
          layer_order |-> <<"layer_dir", "california">>],
         [config |-> [tectonic_regions |-> with(tr, "oceanic", RawCrustRdict("acr", Zero))],
          layer_order |-> << >>],
         [config |-> [tectonic_regions |-> with(tr, "oceanic", RawCrustRdict("acr", Zero)),
                      layers |-> lay(InstallDirLayers)],
          layer_order |-> <<"layer_dir", "california">>]}

\* family 2
ExecArgsOther(a) ==
    \E c \in OtherConfigs, S \in ExecReported, G \in SUBSET {"california"} :
    \E d \in [S -> Dists], ld \in [G -> Dists] :
        a = ExecCall(c.config, c.layer_order, StrecOut(S, d), ld)

\* the event's directory before a run of select: products of an earlier run
\* of the other modules, no model_zc.conf
ProductsOnly == [products |-> TRUE, model_zc |-> NoFile, shake_data |-> NoFile]

InitExecute ==
    /\ pc = "call"
    /\ (ExecArgsLayers(args) \/ ExecArgsOther(args))
    /\ ret = Pending
    /\ datadir = ProductsOnly

CallExecute ==
    /\ pc = "call"
    /\ args.fn = "execute"
    /\ ret' = execute(args.config, args.install_path, args.layer_order, args.strec_out,
                      args.layer_distances, args.org)
    /\ datadir' = select_datadir(datadir, ret')
    /\ pc' = "done"
    /\ UNCHANGED args

NextExecute == CallExecute

SpecExecute == InitExecute /\ [][NextExecute]_vars

(***************************************************************************)
(* Two runs of SelectModule.execute for the same event, one after the      *)
(* other, nothing but the first run having touched the event's directory   *)
(* or the configuration in between.                                        *)
(***************************************************************************)
CallExecuteAgain ==
    /\ pc = "done"
    /\ args.fn = "execute"
    /\ ret' = execute(args.config, args.install_path, args.layer_order, args.strec_out,
                      args.layer_distances, args.org)
    /\ datadir' = select_datadir(datadir, ret')
    /\ pc' = "done again"
    /\ UNCHANGED args

NextSelectRuns == CallExecute \/ CallExecuteAgain

SpecSelectRuns == InitExecute /\ [][NextSelectRuns]_vars

(***************************************************************************)
(* Calls of update_config_regions.                                         *)
(***************************************************************************)
UpdateCall(raw_config, layer_order, layer_distances) ==
    [fn |-> "update_config_regions",
     config |-> validate_config(raw_config, "/home/shake").value,
     layer_order |-> layer_order, layer_distances |-> layer_distances]

\* family 1: a layer directory; every order of the layers, every distance to
\* each layer that has a file, every buffer of each layer
UpdateArgsLayers(a) ==
    \E layer_order \in LayerOrders, hb \in AcrBuffers, G \in SUBSET LayerNames :
    LET names == {layer_order[i] : i \in 2 .. Len(layer_order)}
    IN  \E ld \in [G -> Dists], buff \in [names -> Dists] :
            a = UpdateCall([tectonic_regions |-> RawTectonicRegions(hb),
                            layers |-> RawLayers(InstallDirLayers, names, buff)],
                           layer_order, ld)

\* family 2: the configurations without layers or without a usable layer
\* directory that validate_config accepts
UpdateArgsOther(a) ==
    \E c \in OtherConfigs, G \in SUBSET {"california"} :
    \E ld \in [G -> Dists] :
        /\ validate_config(c.config, "/home/shake").raised = "none"
        /\ a = UpdateCall(c.config, c.layer_order, ld)

InitUpdate ==
    /\ pc = "call"
    /\ (UpdateArgsLayers(args) \/ UpdateArgsOther(args))
    /\ ret = Pending
    /\ datadir = NoDatadir

CallUpdateConfigRegions ==
    /\ pc = "call"
    /\ args.fn = "update_config_regions"
    /\ ret' = update_config_regions(args.config, args.layer_order, args.layer_distances)
    /\ pc' = "done"
    /\ UNCHANGED <<args, datadir>>

NextUpdate == CallUpdateConfigRegions

SpecUpdate == InitUpdate /\ [][NextUpdate]_vars

(***************************************************************************)
(* Runs of AssembleModule.execute for one event, one after the other.      *)
(***************************************************************************)
MaxClock == 2
MaxRuns == 3
MaxBackups == 2
Comments == {"first", "revised"}
Originators == {"us", "ci"}
AssembleFails == {"none", "event.xml", "config", "vs30file"}

\* the history a run leaves in the backup of version n
BackupHistory(n) == [history |-> [i \in 1 .. n |-> <<0, "us", i, "first">>]]

\* the backup directories of the event: none, or backup0001 .. backup000n
BackupSets ==
    {{[number |-> i, shake_data |-> createFromInput(BackupHistory(i))] : i \in 1 .. n} :
        n \in 0 .. MaxBackups}

\* shake_data.hdf before the first run: none, one without a history, or one
\* with the history of earlier versions
InitShakeData ==
    {NoFile, createFromInput(<< >>)}
        \cup {createFromInput(BackupHistory(n)) : n \in 1 .. MaxBackups}

\* the inputs of the run-th run at time clock: the comment of the command
\* line ("None" without one, then the terminal is asked if there is one),
\* the source network of the configuration, the check that fails
AssembleArgs(a, run, clock, backups) ==
    \E comment \in Comments \cup {"None"}, originator \in Originators,
       fails \in AssembleFails, isatty \in BOOLEAN, typed \in Comments \cup {""} :
        /\ comment # "None" => (~isatty /\ typed = "")
        /\ ~isatty => typed = ""
        /\ a = [fn |-> "AssembleModule.execute", run |-> run, timestamp |-> clock,
                comment |-> comment, isatty |-> isatty, typed |-> typed,
                originator |-> originator, fails |-> fails, backups |-> backups]

InitAssemble ==
    /\ pc = "call"
    /\ \E clock \in 0 .. MaxClock, backups \in BackupSets :
           AssembleArgs(args, 1, clock, backups)
    /\ ret = Pending
    /\ \E products \in BOOLEAN, shake_data \in InitShakeData :
           datadir = [products |-> products, model_zc |-> NoFile,
                      shake_data |-> shake_data]

CallAssembleExecute ==
    /\ pc = "call"
    /\ args.fn = "AssembleModule.execute"
    /\ ret' = AssembleModule_execute(args, datadir).ret
    /\ datadir' = AssembleModule_execute(args, datadir).dir
    /\ pc' = "done"
    /\ UNCHANGED args

\* the next run of the module for the event: the clock does not run
\* backwards, the backup directories are the same
NextAssemble ==
    /\ pc = "done"
    /\ args.fn = "AssembleModule.execute"
    /\ args.run < MaxRuns
    /\ \E clock \in args.timestamp .. MaxClock :
           AssembleArgs(args', args.run + 1, clock, args.backups)
    /\ ret' = Pending
    /\ pc' = "call"
    /\ UNCHANGED datadir

NextAssembleRuns == CallAssembleExecute \/ NextAssemble

SpecAssemble == InitAssemble /\ [][NextAssembleRuns]_vars

(***************************************************************************)
(* Claims about get_probability (SpecRamp).                                *)
(***************************************************************************)
RampDone == pc = "done" /\ args.fn = "get_probability"

\* the midpoint of x1 and x2, and the mean of p1 and p2
Half == Norm(1, 2)
MidX == RMul(RAdd(args.x1, args.x2), Half)
MeanP == RMul(RAdd(args.p1, args.p2), Half)

\* C1: for x1 < x2 the result of get_probability is the ramp: exactly p1 for
\* x <= x1, exactly p2 for x >= x2, and p1 + (p2 - p1)*(x - x1)/(x2 - x1) in
\* between, whether the ramp falls or rises.
C1_RampIsReference ==
    (RampDone /\ RLt(args.x1, args.x2)) =>
        /\ ret.raised = "none"
        /\ RLe(args.x, args.x1) => ret.value = args.p1
        /\ RGe(args.x, args.x2) => ret.value = args.p2
        /\ (RLt(args.x1, args.x) /\ RLt(args.x, args.x2)) =>
              ret.value = RAdd(args.p1,
                               PyDiv(RMul(RSub(args.p2, args.p1), RSub(args.x, args.x1)),
                                     RSub(args.x2, args.x1)))

\* a rising ramp evaluated strictly inside its interval, off the midpoint
C1_Witness ==
    /\ RampDone
    /\ RLt(args.x1, args.x) /\ RLt(args.x, args.x2)
    /\ RLt(args.p1, args.p2)
    /\ args.x # MidX
    /\ ret.raised = "none"
    /\ RLt(args.p1, ret.value) /\ RLt(ret.value, args.p2)

\* C2, as stated: for x1 # x2, get_probability at x = (x1 + x2)/2 is
\* (p1 + p2)/2.
C2_MidpointAnyOrder ==
    (RampDone /\ args.x1 # args.x2 /\ args.x = MidX) =>
        (ret.raised = "none" /\ ret.value = MeanP)

\* C2, amended: for x1 < x2, get_probability at x = (x1 + x2)/2 is
\* (p1 + p2)/2.
C2_MidpointOrdered ==
    (RampDone /\ RLt(args.x1, args.x2) /\ args.x = MidX) =>
        (ret.raised = "none" /\ ret.value = MeanP)

\* the midpoint of an ordered ramp with different ends
C2_Witness ==
    /\ RampDone
    /\ RLt(args.x1, args.x2)
    /\ args.x = MidX
    /\ args.p1 # args.p2
    /\ ret.raised = "none"
    /\ ret.value = MeanP

\* C3: get_probability returns a value for every x, x1, p1, x2, p2, also for
\* x1 = x2 and x1 > x2: the division by x1 - x2 is never made with x1 = x2.
C3_RampTotal == RampDone => (ret.raised = "none" /\ Fin(ret.value))

\* a call with x1 = x2 and different ends that returned
C3_Witness ==
    /\ RampDone
    /\ args.x1 = args.x2
    /\ args.p1 # args.p2
    /\ ret.raised = "none"

(***************************************************************************)
(* Claims about get_region_probs (SpecRegion).                             *)
(***************************************************************************)
RegionDone == pc = "done" /\ args.fn = "get_region_probs"

RegionReturned == RegionDone /\ ret.raised = "none"

Configured == DOMAIN args.config

ConfiguredCrust == Configured \ {"subduction"}

\* the pre-normalisation probability of a configured category
PreProb(r) == region_prob(r, args.config[r], args.strec_results.distance[r])

\* the sum of the returned top-level probabilities
TopSum ==
    LET rs == ConfiguredSeq(args.config)
    IN  RSum([j \in 1 .. Len(rs) |-> ret.value.top[rs[j]]])

\* C4: when some configured category has a positive probability before
\* normalisation, get_region_probs returns top-level probabilities that each
\* lie in [0,1] and sum to 1.
C4_TopLevelNormalised ==
    (RegionDone /\ \E r \in Configured : RGt(PreProb(r), Zero)) =>
        /\ ret.raised = "none"
        /\ \A r \in Configured : In01(ret.value.top[r])
        /\ TopSum = One

\* three categories share the weight unequally, one of them out of reach
C4_Witness ==
    /\ RegionReturned
    /\ Cardinality(Configured) >= 3
    /\ \E r \in Configured : PreProb(r) = Zero /\ ret.value.top[r] = Zero
    /\ \E r, q \in Configured :
          /\ RLt(Zero, ret.value.top[r])
          /\ RLt(ret.value.top[r], ret.value.top[q])
          /\ RLt(ret.value.top[q], One)
    /\ TopSum = One

\* the two-sided ramp in depth: 0 up to min_depth - vertical_buffer, rising
\* to 1 at min_depth, 1 through max_depth, falling to 0 at
\* max_depth + vertical_buffer, 0 beyond
TwoSidedRamp(depth, mn, mx, vb) ==
    IF RLe(mn, depth) /\ RLe(depth, mx) THEN One
    ELSE IF RLt(depth, mn)
         THEN (IF RLe(depth, RSub(mn, vb)) THEN Zero
               ELSE RSub(One, PyDiv(RSub(mn, depth), vb)))
         ELSE (IF RGe(depth, RAdd(mx, vb)) THEN Zero
               ELSE RSub(One, PyDiv(RSub(depth, mx), vb)))

\* C9: in get_region_probs the probability of every depth layer of a
\* non-subduction category, before normalisation, is the two-sided ramp in
\* depth.
C9_LayerTwoSidedRamp ==
    RegionReturned =>
        \A r \in ConfiguredCrust : \A i \in LayerIndices(args.config[r]) :
            p_layer(args.depth, args.config[r], i) =
                TwoSidedRamp(args.depth, args.config[r].min_depth[i + 1],
                             args.config[r].max_depth[i + 1],
                             args.config[r].vertical_buffer)

\* C10: in every result of get_region_probs the layer probabilities of each
\* non-subduction category sum to the category's top-level probability.
C10_LayersSumToCategory ==
    (RegionReturned /\ \A r \in Configured : Fin(ret.value.top[r])) =>
        \A r \in ConfiguredCrust :
            LayerSum(ret.value.layers, r, args.config[r]) = ret.value.top[r]

\* the binary presence of subduction: 1 at distance <= 0, 0 beyond
SubductionPresence(distance) == IF RLe(distance, Zero) THEN One ELSE Zero

\* C12: in get_region_probs the probability of the subduction category before
\* normalisation is 1 when the distance to subduction is <= 0 and 0 for every
\* positive distance, whatever buffer is configured for it; the returned
\* value is that number divided by the sum over the categories.
C12_SubductionBinary ==
    (RegionDone /\ "subduction" \in Configured) =>
        LET d == args.strec_results.distance["subduction"]
        IN  /\ \A hb \in Dists :
                  region_prob("subduction", [horizontal_buffer |-> hb], d)
                      = SubductionPresence(d)
            /\ PreProb("subduction") = SubductionPresence(d)
            /\ (ret.raised = "none" /\ Fin(ret.value.top["subduction"])) =>
                  ret.value.top["subduction"] =
                      PyDiv(SubductionPresence(d),
                            region_probsum(args.strec_results, args.config))

\* subduction one unit away gets no weight while a category at the same
\* distance, inside its buffer, gets some
C12_Witness ==
    /\ RegionReturned
    /\ "subduction" \in Configured
    /\ RGt(args.strec_results.distance["subduction"], Zero)
    /\ ret.value.top["subduction"] = Zero
    /\ \E r \in ConfiguredCrust :
          /\ args.strec_results.distance[r] = args.strec_results.distance["subduction"]
          /\ RGt(ret.value.top[r], Zero)

(***************************************************************************)
(* Claims about get_subduction_probs (SpecSubduction).                     *)
(***************************************************************************)
SubDone == pc = "done" /\ args.fn = "get_subduction_probs"

SubCfg == args.config.subduction

SubRampKeys ==
    {"p_int_hypo", "p_int_kagan", "p_int_sz", "p_int_mag", "p_int_dep_no_slab_upper",
     "p_int_dep_no_slab_lower", "p_crust_slab", "p_crust_hypo"}

\* every ramp endpoint probability and p_kagan_default lies in [0,1]
SubCfgIn01 ==
    /\ In01(SubCfg.p_kagan_default)
    /\ \A k \in SubRampKeys : In01(SubCfg[k].p1) /\ In01(SubCfg[k].p2)

SubSum == RAdd(RAdd(ret.value.crustal, ret.value.interface), ret.value.intraslab)

Clamp01(a) == IF RLt(a, Zero) THEN Zero ELSE IF RGt(a, One) THEN One ELSE a

\* C6: for every input of get_subduction_probs, with and without a slab, the
\* returned crustal, interface and intraslab probabilities sum to exactly 1.
C6_SubductionSumsToOne == SubDone => (ret.raised = "none" /\ SubSum = One)

\* slab present, Kagan angle known, and no probability is 0 or 1
C6_Witness ==
    /\ SubDone
    /\ args.above_slab
    /\ Fin(args.strec_results.KaganAngle)
    /\ ret.raised = "none"
    /\ \A k \in {"crustal", "interface", "intraslab"} :
          RLt(Zero, ret.value[k]) /\ RLt(ret.value[k], One)
    /\ SubSum = One

\* C7: when the ramp endpoint probabilities and p_kagan_default all lie in
\* [0,1], each of the crustal, interface and intraslab probabilities that
\* get_subduction_probs returns lies in [0,1], in both modes.
C7_SubductionProbsIn01 ==
    (SubDone /\ SubCfgIn01) =>
        /\ ret.raised = "none"
        /\ \A k \in {"crustal", "interface", "intraslab"} : In01(ret.value[k])

\* C8: without a slab the depth term p_int_depth_upper + p_int_depth_lower is
\* clamped to [0,1] before it multiplies p_int_mag, so the interface
\* probability never exceeds p_int_mag.
C8_DepthTermClamped ==
    (SubDone /\ ~args.above_slab /\ SubCfgIn01) =>
        /\ ret.raised = "none"
        /\ ret.value.interface =
              RMul(p_int_mag(args.mag, SubCfg), Clamp01(p_int_depth(args.depth, SubCfg)))
        /\ RLe(ret.value.interface, p_int_mag(args.mag, SubCfg))

\* the Kagan ramp of the configuration at the reported angle
KaganRamp ==
    get_probability(args.strec_results.KaganAngle, SubCfg.p_int_kagan.x1,
                    SubCfg.p_int_kagan.p1, SubCfg.p_int_kagan.x2, SubCfg.p_int_kagan.p2)

\* the interface probability with the Kagan term k
InterfaceWithKagan(k) ==
    RMul(RMul(p_int_hypo(args.strec_results, args.depth, SubCfg), k),
         p_int_sz(args.strec_results, args.depth, SubCfg))

\* C13: with a slab, get_subduction_probs returns normally whatever the Kagan
\* angle; when the angle is NaN or infinite the Kagan term of the interface
\* probability is p_kagan_default, and when it is finite the term is the
\* p_int_kagan ramp at the angle.
C13_KaganDefault ==
    (SubDone /\ args.above_slab) =>
        /\ ret.raised = "none"
        /\ ~Fin(args.strec_results.KaganAngle) =>
              /\ p_int_kagan(args.strec_results, SubCfg) = SubCfg.p_kagan_default
              /\ ret.value.interface = InterfaceWithKagan(SubCfg.p_kagan_default)
        /\ Fin(args.strec_results.KaganAngle) =>
              /\ p_int_kagan(args.strec_results, SubCfg) = KaganRamp
              /\ ret.value.interface = InterfaceWithKagan(KaganRamp)

\* no Kagan angle, a default strictly between 0 and 1, and an interface
\* probability that shows it
C13_Witness ==
    /\ SubDone
    /\ args.above_slab
    /\ args.strec_results.KaganAngle = NaN
    /\ RLt(Zero, SubCfg.p_kagan_default) /\ RLt(SubCfg.p_kagan_default, One)
    /\ ret.raised = "none"
    /\ ret.value.interface = SubCfg.p_kagan_default

\* C28: with a slab, when every ramp endpoint probability and
\* p_kagan_default lies in [0,1], the interface, crustal and intraslab
\* probabilities each lie in [0,1] with no clamping: the crustal one is
\* (1 - interface) * p_crust_slab * p_crust_hypo and never exceeds
\* 1 - interface.
C28_SlabModeIn01 ==
    (SubDone /\ args.above_slab /\ SubCfgIn01) =>
        LET cfg == args.config.subduction
            p_crust_slab ==
                get_probability(RSub(args.depth, args.strec_results.SlabModelDepth),
                                cfg.p_crust_slab.x1, cfg.p_crust_slab.p1,
                                cfg.p_crust_slab.x2, cfg.p_crust_slab.p2)
            p_crust_hypo ==
                get_probability(args.depth, cfg.p_crust_hypo.x1, cfg.p_crust_hypo.p1,
                                cfg.p_crust_hypo.x2, cfg.p_crust_hypo.p2)
        IN  /\ ret.raised = "none"
            /\ \A k \in {"crustal", "interface", "intraslab"} : In01(ret.value[k])
            /\ ret.value.crustal =
                  RMul(RMul(RSub(One, ret.value.interface), p_crust_slab), p_crust_hypo)
            /\ RLe(ret.value.crustal, RSub(One, ret.value.interface))

\* slab present, no Kagan angle, a crustal probability strictly between 0 and
\* 1 - interface, and an interface probability strictly between 0 and 1
C28_Witness ==
    /\ SubDone
    /\ args.above_slab
    /\ SubCfgIn01
    /\ ~Fin(args.strec_results.KaganAngle)
    /\ ret.raised = "none"
    /\ RLt(Zero, ret.value.interface) /\ RLt(ret.value.interface, One)
    /\ RLt(Zero, ret.value.crustal)
    /\ RLt(ret.value.crustal, RSub(One, ret.value.interface))

(***************************************************************************)
(* Claims about get_probs (SpecProbs).                                     *)
(***************************************************************************)
ProbsDone == pc = "done" /\ args.fn = "get_probs"

ProbsReturned == ProbsDone /\ ret.raised = "none"

SubtypeSum ==
    RAdd(RAdd(ret.value.region_probs.crustal, ret.value.region_probs.interface),
         ret.value.region_probs.intraslab)

\* C11: in every result of get_probs, crustal + interface + intraslab equals
\* the returned top-level probability of subduction.
C11_SubtypesSumToSubduction ==
    (ProbsReturned /\ "subduction" \in DOMAIN args.config.tectonic_regions) =>
        SubtypeSum = ret.value.region_probs.top["subduction"]

\* the classifier's label is Subduction exactly at distance 0 to subduction
LabelAgreesWithDistance ==
    (args.strec_results.TectonicRegion = "Subduction")
        <=> (args.strec_results.distance["subduction"] = Zero)

\* the equality of C11 for the results in which the label agrees with the
\* distance and the top-level probability of subduction is a number
SubtypesSumWhenLabelAgrees ==
    (ProbsReturned /\ "subduction" \in DOMAIN args.config.tectonic_regions
       /\ LabelAgreesWithDistance
       /\ Fin(ret.value.region_probs.top["subduction"])) =>
        SubtypeSum = ret.value.region_probs.top["subduction"]

\* a result with a subduction share strictly between 0 and 1 split over
\* more than one sub-type
SubtypesSplitReached ==
    /\ ProbsReturned
    /\ "subduction" \in DOMAIN args.config.tectonic_regions
    /\ LabelAgreesWithDistance
    /\ RLt(Zero, ret.value.region_probs.top["subduction"])
    /\ RLt(ret.value.region_probs.top["subduction"], One)
    /\ RLt(Zero, ret.value.region_probs.interface)
    /\ RLt(Zero, ret.value.region_probs.intraslab)

(***************************************************************************)
(* Claims about get_weights (SpecWeights).                                 *)
(***************************************************************************)
WeightsDone == pc = "done" /\ args.fn = "get_weights"

WeightsReturned == WeightsDone /\ ret.raised = "none"

\* the (GMPE, probability) pairs of the (category, layer) pairs and sub-types
\* that have a positive probability in tprobs, in the order of the
\* configuration
PositivePairs(config, tprobs) ==
    LET cfg_tr == config.tectonic_regions
        rs == ConfiguredSeq(cfg_tr)
        of(region) ==
            IF region = "subduction"
            THEN Concat([j \in 1 .. 3 |->
                    LET sub == <<"crustal", "interface", "intraslab">>[j]
                    IN  IF RGt(tprobs[sub], Zero)
                        THEN <<[gmpe |-> cfg_tr[region][sub].gmpe[1], weight |-> tprobs[sub]]>>
                        ELSE <<>>])
            ELSE Concat([j \in 1 .. Len(cfg_tr[region].min_depth) |->
                    IF RGt(tprobs.layers[<<region, j - 1>>], Zero)
                    THEN <<[gmpe |-> cfg_tr[region].gmpe[j],
                            weight |-> tprobs.layers[<<region, j - 1>>]]>>
                    ELSE <<>>])
    IN  Concat([j \in 1 .. Len(rs) |-> of(rs[j])])

\* C25: in the result of get_weights every (category, layer) pair and every
\* sub-type with a positive probability contributes one GMPE identifier and
\* one weight: the GMPE list and the weight array have the same length, and
\* the i-th weight is the probability of the i-th GMPE's layer or sub-type.
C25_OneGmpePerPositivePair ==
    WeightsReturned =>
        LET tprobs == get_probs(args.origin, args.config, args.strec_results,
                                TRUE).value.region_probs
            pairs == PositivePairs(args.config, tprobs)
        IN  /\ Len(ret.value.gmpelist) = Len(ret.value.weightlist)
            /\ ret.value.gmpelist = [i \in 1 .. Len(pairs) |-> pairs[i].gmpe]
            /\ ret.value.weightlist = [i \in 1 .. Len(pairs) |-> pairs[i].weight]

\* every category that has a layer of positive probability has all its
\* layers of positive probability
NoCategoryPartlyPositive(config, tprobs) ==
    \A r \in DOMAIN config.tectonic_regions \ {"subduction"} :
        LET probs == {tprobs.layers[<<r, i>>] : i \in LayerIndices(config.tectonic_regions[r])}
        IN  (\E q \in probs : RGt(q, Zero)) => (\A q \in probs : RGt(q, Zero))

\* the pairing of C25 holds when no category has some layers of positive
\* probability and others of probability 0
PairedUnlessPartlyPositive ==
    WeightsReturned =>
        LET tprobs == get_probs(args.origin, args.config, args.strec_results,
                                TRUE).value.region_probs
            pairs == PositivePairs(args.config, tprobs)
        IN  (NoCategoryPartlyPositive(args.config, tprobs)
               /\ \A i \in 1 .. Len(ret.value.weightlist) : Fin(ret.value.weightlist[i])) =>
                /\ ret.value.gmpelist = [i \in 1 .. Len(pairs) |-> pairs[i].gmpe]
                /\ ret.value.weightlist = [i \in 1 .. Len(pairs) |-> pairs[i].weight]

\* two categories and a sub-type, each with one GMPE and its weight
PairedReached ==
    /\ WeightsReturned
    /\ Len(ret.value.gmpelist) >= 3
    /\ Len(ret.value.gmpelist) = Len(ret.value.weightlist)
    /\ \E i \in 1 .. Len(ret.value.gmpelist) : ret.value.gmpelist[i] = "subduction_interface"

(***************************************************************************)
(* Claims about get_gmpes_by_region (SpecSelect).                          *)
(***************************************************************************)
SelectDone == pc = "done" /\ args.fn = "get_gmpes_by_region"

\* the sub-type probabilities given by the classifier sum to 1
GivenSubtypesSumToOne ==
    "subduction" \in DOMAIN args.strec_tr =>
        LET pr == args.strec_tr["subduction"].probabilities
        IN  RAdd(RAdd(pr.crustal, pr.interface), pr.intraslab) = One

\* C5: whenever get_gmpes_by_region returns a non-empty GMPE list, the
\* classifier's sub-type probabilities summing to 1, the returned weights sum
\* to 1.
C5_RegionWeightsSumToOne ==
    (SelectDone /\ ret.raised = "none" /\ GivenSubtypesSumToOne
       /\ Len(ret.value.gmpe_list) >= 1) =>
        RSum(ret.value.gmpe_weights) = One

\* the depth reaches layer ig of a category: it lies within the layer's
\* bounds or inside the vertical buffer above or below them
DepthReachesLayer(depth, rdict, ig) ==
    LET mn == rdict.min_depth[ig]
        mx == rdict.max_depth[ig]
        vb == rdict.vertical_buffer
    IN  \/ RLe(mn, depth) /\ RLe(depth, mx)
        \/ RLt(RSub(mn, vb), depth) /\ RLt(depth, mn)
        \/ RLt(mx, depth) /\ RLt(depth, RAdd(mx, vb))

\* category r is reported and configured with a nonzero top-level weight
\* 1 - distance / buffer (1 for a buffer of 0)
NonzeroTopWeight(r) ==
    /\ r \in DOMAIN args.strec_tr
    /\ r \in DOMAIN args.cfg
    /\ LET d == args.strec_tr[r].distance
           hb == args.cfg[r].horizontal_buffer
       IN  RLt(d, hb) \/ (hb = Zero /\ d = Zero)

\* the depth of the earthquake reaches no depth layer of category r
NoLayerAtDepth(r) ==
    \A ig \in 1 .. Len(args.cfg[r].gmpe) :
        ~DepthReachesLayer(args.origin.depth, args.cfg[r], ig)

\* C21: if a category other than subduction has a nonzero top-level weight
\* and the depth of the earthquake reaches none of its depth layers,
\* get_gmpes_by_region raises RuntimeError and returns no weighted set.
C21_NoDepthLayerRaises ==
    (SelectDone /\ \E r \in CrustRegions : NonzeroTopWeight(r) /\ NoLayerAtDepth(r)) =>
        ret.raised = "RuntimeError"

\* every reported category is configured, acr has weight 1 and no layer at
\* the depth, and subduction is reported at distance 0 with sub-type
\* probabilities that would have given a weighted set
C21_Witness ==
    /\ SelectDone
    /\ DOMAIN args.strec_tr = {"acr", "subduction"}
    /\ DOMAIN args.strec_tr \subseteq DOMAIN args.cfg
    /\ NonzeroTopWeight("acr") /\ NoLayerAtDepth("acr")
    /\ args.strec_tr["subduction"].distance = Zero
    /\ RGt(args.strec_tr["subduction"].probabilities.interface, Zero)
    /\ ret.raised = "RuntimeError"

(***************************************************************************)
(* Claims about get_gmpes_from_depth (SpecDepth).                          *)
(***************************************************************************)
DepthDone == pc = "done" /\ args.fn = "get_gmpes_from_depth"

DepthReturned == DepthDone /\ ret.raised = "none"

\* the weight of a layer before normalisation: 1 within the layer's bounds,
\* 1 - (min_depth - depth) / vbuf above them, 1 - (depth - max_depth) / vbuf
\* below them
RampWeight(depth, mn, mx, vb) ==
    IF RLe(mn, depth) /\ RLe(depth, mx) THEN One
    ELSE IF RLt(depth, mn) THEN RSub(One, PyDiv(RSub(mn, depth), vb))
    ELSE RSub(One, PyDiv(RSub(depth, mx), vb))

\* min_depth - vbuf < depth < max_depth + vbuf
InOpenReach(depth, mn, mx, vb) ==
    RLt(RSub(mn, vb), depth) /\ RLt(depth, RAdd(mx, vb))

\* what get_gmpes_from_depth gives when included(ig) says which layers are
\* included: RuntimeError when none is, else the GMPEs of the included layers
\* and their ramp weights divided by their sum
DepthResult(depth, region, included(_)) ==
    LET n == Len(region.gmpe)
        w == Concat([ig \in 1 .. n |->
                 IF included(ig)
                 THEN <<RampWeight(depth, region.min_depth[ig], region.max_depth[ig],
                                   region.vertical_buffer)>>
                 ELSE <<>>])
        g == Concat([ig \in 1 .. n |-> IF included(ig) THEN <<region.gmpe[ig]>> ELSE <<>>])
    IN  IF Len(g) = 0 THEN Raised("RuntimeError")
        ELSE Returned([gmpes |-> g, weights |-> ArrayDiv(w, RSum(w))])

\* C26 as stated: a layer is included exactly when
\* min_depth - vbuf < depth < max_depth + vbuf, with weight 1 within the
\* layer's bounds and the ramp weights outside them; the result is these
\* weights normalised.
C26_IncludedInOpenReach ==
    DepthDone =>
        LET r == args.region
            included(ig) == InOpenReach(args.depth, r.min_depth[ig], r.max_depth[ig],
                                        r.vertical_buffer)
        IN  ret = DepthResult(args.depth, r, included)

\* C26 amended: a layer is included exactly when
\* min_depth <= depth <= max_depth or min_depth - vbuf < depth < max_depth + vbuf
\* (the same thing unless vbuf = 0), with weight 1 within the layer's bounds,
\* 1 - (min_depth - depth) / vbuf above them and 1 - (depth - max_depth) / vbuf
\* below them; every other layer is omitted, and the result is these weights
\* normalised.
C26_IncludedInReach ==
    DepthDone =>
        LET r == args.region
            included(ig) ==
                \/ RLe(r.min_depth[ig], args.depth) /\ RLe(args.depth, r.max_depth[ig])
                \/ InOpenReach(args.depth, r.min_depth[ig], r.max_depth[ig],
                               r.vertical_buffer)
        IN  /\ ret = DepthResult(args.depth, r, included)
            /\ \A ig \in 1 .. Len(r.gmpe) :
                  depth_weight(args.depth, r, ig) =
                      IF included(ig)
                      THEN <<RampWeight(args.depth, r.min_depth[ig], r.max_depth[ig],
                                        r.vertical_buffer)>>
                      ELSE <<>>

\* two layers: the depth is inside the buffer below the first, with a weight
\* strictly between 0 and 1, and within the bounds of the second
C26_Witness ==
    /\ DepthReturned
    /\ Len(args.region.gmpe) = 2
    /\ RLt(args.region.max_depth[1], args.depth)
    /\ depth_weight(args.depth, args.region, 1) = <<Half>>
    /\ depth_weight(args.depth, args.region, 2) = <<One>>
    /\ ret.value.weights = <<Norm(1, 3), Norm(2, 3)>>

\* C27: whenever get_gmpes_from_depth returns, its GMPE list and weight array
\* have the same non-zero length, every weight is strictly positive, and the
\* weights sum to 1.
C27_DepthWeightsNormalised ==
    DepthReturned =>
        /\ Len(ret.value.gmpes) = Len(ret.value.weights)
        /\ Len(ret.value.gmpes) >= 1
        /\ \A j \in 1 .. Len(ret.value.weights) : RGt(ret.value.weights[j], Zero)
        /\ RSum(ret.value.weights) = One

\* two layers returned with different weights, the depth being in the upper
\* buffer of the second
C27_Witness ==
    /\ DepthReturned
    /\ Len(ret.value.gmpes) = 2
    /\ RLt(args.depth, args.region.min_depth[2])
    /\ RLt(ret.value.weights[2], ret.value.weights[1])
    /\ RSum(ret.value.weights) = One

\* C29: get_gmpes_from_depth never divides by zero: a ramp weight, the only
\* place that divides by vbuf, is appended only when vbuf > 0, and when the
\* final division is reached the sum of the weights is strictly positive
\* (with no weight at all RuntimeError is raised first).
C29_NoDivisionByZero ==
    DepthDone =>
        LET r == args.region
            w == [ig \in 1 .. Len(r.gmpe) |-> depth_weight(args.depth, r, ig)]
            all == Concat(w)
        IN  /\ ret.raised # "ZeroDivisionError"
            /\ \A ig \in 1 .. Len(r.gmpe) :
                  (w[ig] # <<>> /\ w[ig] # <<One>>) => RGt(r.vertical_buffer, Zero)
            /\ IF Len(all) = 0 THEN ret.raised = "RuntimeError"
               ELSE /\ RGt(RSum(all), Zero)
                    /\ ret.raised = "none"
                    /\ \A j \in 1 .. Len(ret.value.weights) : Fin(ret.value.weights[j])

\* no vertical buffer, the depth on the upper bound of a layer and on the
\* lower bound of the one above it
C29_Witness ==
    /\ DepthReturned
    /\ args.region.vertical_buffer = Zero
    /\ Len(args.region.gmpe) = 2
    /\ args.depth = args.region.max_depth[1]
    /\ args.depth = args.region.min_depth[2]
    /\ Len(ret.value.weights) = 2

(***************************************************************************)
(* Claims about SelectModule.execute (SpecExecute).                        *)
(***************************************************************************)
ExecDone == pc = "done" /\ args.fn = "execute"

ExecWritten == ExecDone /\ ret.raised = "none"

\* the configuration after validate_config
ExecConfig == validate_config(args.config, args.install_path)

ExecStrTr == args.strec_out.tectonic_regions

\* the weighted set of the global configuration
GlobalSet(config) == get_gmpes_by_region(ExecStrTr, config.tectonic_regions, args.org)

\* the weighted set of the configuration with the settings of layer l
LayerSet(config, l) ==
    get_gmpes_by_region(ExecStrTr,
                        override_regions(config.tectonic_regions, config.layers[l]),
                        args.org)

\* the distances of the layers, when there is a layer directory to look in
GeoLayers(config) ==
    IF /\ "layers" \in DOMAIN config
       /\ "layer_dir" \in DOMAIN config.layers
       /\ config.layers.layer_dir \notin {"", "None"}
    THEN args.layer_distances
    ELSE << >>

\* the positions, in configuration order, of the layers that have a distance
Candidates(geo) ==
    {i \in 1 .. Len(args.layer_order) :
        args.layer_order[i] # "layer_dir" /\ args.layer_order[i] \in DOMAIN geo}

\* the first layer at distance 0, else the first of the layers at the
\* smallest distance, else none
ExpectedNearest(geo) ==
    LET cand == Candidates(geo)
        dist == [i \in cand |-> geo[args.layer_order[i]]]
    IN  IF cand = {} THEN NoLayer
        ELSE IF \E i \in cand : dist[i] = Zero
        THEN args.layer_order[CHOOSE i \in cand :
                /\ dist[i] = Zero
                /\ \A j \in cand : dist[j] = Zero => i <= j]
        ELSE args.layer_order[CHOOSE i \in cand :
                \A j \in cand :
                    \/ RLt(dist[i], dist[j])
                    \/ (dist[i] = dist[j] /\ i <= j)]

\* the selected layer and its distance, in a call that wrote
Nearest == ret.value.nearest_layer_name

NearestDist == ret.value.min_dist_to_layer

\* C14: when the selected layer is at distance 0, the lists execute writes
\* are exactly those get_gmpes_by_region computes from the configuration
\* with the layer's settings: no entry of the global computation remains.
C14_InsideLayerReplaces ==
    (ExecWritten /\ Nearest # NoLayer /\ NearestDist = Zero) =>
        LET layer == LayerSet(ExecConfig.value, Nearest)
        IN  /\ layer.raised = "none"
            /\ ret.value.gmpe_list = layer.value.gmpe_list
            /\ ret.value.weight_list = layer.value.gmpe_weights

\* inside a layer that replaces the GMPE of the only reported category
C14_Witness ==
    /\ ExecWritten
    /\ Nearest # NoLayer /\ NearestDist = Zero
    /\ GlobalSet(ExecConfig.value).value.gmpe_list = <<"active_crustal_shallow">>
    /\ ret.value.gmpe_list = <<"special_california">>
    /\ ret.value.weight_list = <<One>>

\* C15: when the nearest layer's distance is positive and equal to the
\* layer's horizontal buffer, the blend weight is 0 and the lists written
\* are those of the global computation: the same identifiers with the same
\* weights, nothing added.
C15_AtBufferEqualsGlobal ==
    ExecWritten =>
        LET config == ExecConfig.value
            global == GlobalSet(config).value
        IN  (Nearest # NoLayer /\ RGt(NearestDist, Zero)
               /\ NearestDist = config.layers[Nearest].horizontal_buffer) =>
                /\ layer_weight(NearestDist, config.layers[Nearest].horizontal_buffer) = Zero
                /\ ret.value.gmpe_list = global.gmpe_list
                /\ ret.value.weight_list = global.gmpe_weights

\* the blend weight 1 - d/buffer of the selected layer
Blend(config) == RSub(One, PyDiv(NearestDist, config.layers[Nearest].horizontal_buffer))

\* C16: when the selected layer's distance d satisfies 0 < d <= buffer, the
\* blend weight 1 - d/buffer lies in [0,1], the weights written are the
\* global weights times (1 - blend) followed by the layer's weights times
\* blend, and when the global and the layer's weights each sum to 1 the two
\* parts sum to 1 - blend and blend, and the weights written to 1.
C16_BlendInsideBuffer ==
    ExecWritten =>
        LET config == ExecConfig.value
            blend == Blend(config)
            global == GlobalSet(config).value.gmpe_weights
            layer == LayerSet(config, Nearest).value.gmpe_weights
            global_part == Scale(global, RSub(One, blend))
            layer_part == Scale(layer, blend)
        IN  (Nearest # NoLayer /\ RGt(NearestDist, Zero)
               /\ RLe(NearestDist, config.layers[Nearest].horizontal_buffer)) =>
                /\ In01(blend)
                /\ ret.value.weight_list = global_part \o layer_part
                /\ (RSum(global) = One /\ RSum(layer) = One) =>
                        /\ RSum(global_part) = RSub(One, blend)
                        /\ RSum(layer_part) = blend
                        /\ RSum(ret.value.weight_list) = One

\* half-way into the buffer of a layer, two categories in the global set,
\* the lists of the global and of the layer's configuration each summing to 1
C16_Witness ==
    /\ ExecWritten
    /\ Nearest # NoLayer
    /\ RGt(NearestDist, Zero)
    /\ LET config == ExecConfig.value
           global == GlobalSet(config).value
           layer == LayerSet(config, Nearest).value
       IN  /\ Blend(config) = Norm(1, 2)
           /\ Len(global.gmpe_list) = 2
           /\ RSum(global.gmpe_weights) = One
           /\ RSum(layer.gmpe_weights) = One
           /\ ret.value.gmpe_list = global.gmpe_list \o layer.gmpe_list
    /\ RSum(ret.value.weight_list) = One

\* no configured layer with a distance is within its own horizontal buffer
NoLayerWithinBuffer(config) ==
    LET geo == GeoLayers(config)
    IN  \A i \in Candidates(geo) :
            ~RLe(geo[args.layer_order[i]],
                 config.layers[args.layer_order[i]].horizontal_buffer)

\* C17: when no configured layer has a distance within its own horizontal
\* buffer, or no layer is configured, execute writes the lists of the global
\* computation unchanged and leaves the tectonic-region configuration as it
\* was; when the global computation raises, so does execute.
C17_NoLayerPassThrough ==
    ExecDone =>
        LET validated == ExecConfig
            config == validated.value
            global == GlobalSet(config)
        IN  (validated.raised = "none" /\ NoLayerWithinBuffer(config)) =>
                IF global.raised # "none" THEN ret = global
                ELSE /\ ret.raised = "none"
                     /\ ret.value.gmpe_list = global.value.gmpe_list
                     /\ ret.value.weight_list = global.value.gmpe_weights
                     /\ ret.value.cfg_tr = config.tectonic_regions

\* two layers configured and found, both beyond their buffers
C17_Witness ==
    /\ ExecWritten
    /\ Nearest # NoLayer
    /\ LET config == ExecConfig.value
       IN  /\ Cardinality(Candidates(GeoLayers(config))) = 2
           /\ NoLayerWithinBuffer(config)
           /\ RGt(NearestDist, config.layers[Nearest].horizontal_buffer)
           /\ ret.value.gmpe_list = GlobalSet(config).value.gmpe_list
           /\ ret.value.cfg_tr = config.tectonic_regions

\* C18: the layer execute selects is the first configured layer at distance
\* 0 if there is one, else the first of the layers at the smallest distance;
\* it is the only layer whose buffer decides, and the only one whose settings
\* can be written into the configuration.
C18_NearestLayerSelected ==
    ExecDone =>
        LET validated == ExecConfig
            config == validated.value
            global == GlobalSet(config)
            geo == GeoLayers(config)
            expected == ExpectedNearest(geo)
            applies == /\ expected # NoLayer
                       /\ RLe(geo[expected], config.layers[expected].horizontal_buffer)
            scan == find_nearest_layer(config, args.layer_order, args.layer_distances)
        IN  (validated.raised = "none" /\ global.raised = "none") =>
                /\ scan.nearest_layer_name = expected
                /\ expected # NoLayer => scan.min_dist_to_layer = geo[expected]
                /\ ret.raised = "none" =>
                      /\ Nearest = expected
                      /\ ret.value.cfg_tr =
                            IF applies
                            THEN override_regions(config.tectonic_regions,
                                                  config.layers[expected])
                            ELSE config.tectonic_regions
                      /\ ~applies => ret.value.gmpe_list = global.value.gmpe_list

\* two layers at the same positive distance, both within their buffers: the
\* one listed first, induced, is applied
C18_Witness ==
    /\ ExecWritten
    /\ args.layer_order = <<"layer_dir", "induced", "california">>
    /\ DOMAIN args.layer_distances = LayerNames
    /\ \A l \in LayerNames : args.layer_distances[l] = One
    /\ Nearest = "induced"
    /\ LET config == ExecConfig.value
       IN  /\ \A l \in LayerNames : RLe(One, config.layers[l].horizontal_buffer)
           /\ ret.value.cfg_tr = override_regions(config.tectonic_regions,
                                                  config.layers["induced"])
           /\ ret.value.cfg_tr # config.tectonic_regions

\* a scalar, at any depth of the configuration, under a key that
\* validate_config does not know
RECURSIVE HasUnexpectedLeaf(_)
HasUnexpectedLeaf(section) ==
    \E key \in DOMAIN section :
        IF IsDict(section[key]) THEN HasUnexpectedLeaf(section[key])
        ELSE key \notin ValidLeafKeys

\* a category of tectonic_regions that is none of acr, scr, volcanic and
\* subduction
HasUnknownCategory == \E key \in DOMAIN args.config.tectonic_regions : key \notin Regions

\* C19: an unrecognised key in the configuration, be it an unexpected scalar
\* key or a category name outside acr, scr, volcanic and subduction, makes
\* execute raise ValidateError, which is raised before get_gmpes_by_region
\* is called.
C19_UnrecognisedKeyRaises ==
    (ExecDone /\ (HasUnexpectedLeaf(args.config) \/ HasUnknownCategory)) =>
        ret.raised = "ValidateError"

\* the part of C19 about scalar keys
UnexpectedLeafRaises ==
    (ExecDone /\ HasUnexpectedLeaf(args.config)) => ret.raised = "ValidateError"

\* every reported category is farther away than its buffer, subduction being
\* anywhere but at distance 0
AllOutOfRange ==
    \A r \in DOMAIN args.strec_tr :
        IF r = "subduction" THEN args.strec_tr[r].distance # Zero
        ELSE r \in DOMAIN args.cfg
               /\ RGt(args.strec_tr[r].distance, args.cfg[r].horizontal_buffer)

\* C20: if every category of the classification result lies farther away
\* than its buffer (subduction not being at distance 0), get_gmpes_by_region
\* raises an error and returns no weighted set.
C20_AllOutOfRangeRaises ==
    (SelectDone /\ AllOutOfRange) => ret.raised # "none"

\* the first of validation, region weighting and layer blending that raises
\* in a run of execute with the arguments a, or "none"
StageThatRaises(a) ==
    LET validated == validate_config(a.config, a.install_path)
        config == validated.value
        str_tr == a.strec_out.tectonic_regions
        global == get_gmpes_by_region(str_tr, config.tectonic_regions, a.org)
        scan == find_nearest_layer(config, a.layer_order, a.layer_distances)
        lcfg == config.layers[scan.nearest_layer_name]
        layer == get_gmpes_by_region(str_tr, override_regions(config.tectonic_regions, lcfg),
                                     a.org)
    IN  IF validated.raised # "none" THEN "validation"
        ELSE IF global.raised # "none" THEN "region weighting"
        ELSE IF scan.nearest_layer_name = NoLayer THEN "none"
        ELSE IF "horizontal_buffer" \notin DOMAIN lcfg THEN "layer blending"
        ELSE IF ~layer_applies(config, scan) THEN "none"
        ELSE IF ~((DOMAIN lcfg \ {"horizontal_buffer"}) \subseteq DOMAIN config.tectonic_regions)
        THEN "layer blending"
        ELSE IF layer.raised # "none" THEN "layer blending"
        ELSE "none"

\* C22: a run of execute writes model_zc.conf only when validation, region
\* weighting and layer blending all completed without raising, and it then
\* writes the lists it computed; when one of them raises, the run raises,
\* returns no GMPE set and leaves model_zc.conf as it was.
C22_WriteOnlyAfterAllStages ==
    [][(pc = "call" /\ args.fn = "execute") =>
          LET stage == StageThatRaises(args)
          IN  /\ stage # "none" => ret'.raised # "none"
              /\ ret'.raised # "none" => datadir'.model_zc = datadir.model_zc
              /\ datadir'.model_zc # datadir.model_zc =>
                    /\ stage = "none"
                    /\ ret'.raised = "none"
                    /\ datadir'.model_zc.gmpes = ret'.value.gmpe_list
                    /\ datadir'.model_zc.weights = ret'.value.weight_list]_vars

\* the global set was computed, the event is inside a layer, the selection
\* with the layer's settings raised: nothing was written
C22_Witness ==
    /\ ExecDone
    /\ StageThatRaises(args) = "layer blending"
    /\ GlobalSet(ExecConfig.value).raised = "none"
    /\ ret.raised = "RuntimeError"
    /\ datadir.model_zc = NoFile
    /\ ~datadir.products

\* the stages completed and the file holds the lists of the run
WrittenAfterAllStages ==
    /\ ExecWritten
    /\ StageThatRaises(args) = "none"
    /\ datadir.model_zc.exists
    /\ datadir.model_zc.gmpes = ret.value.gmpe_list
    /\ Len(ret.value.gmpe_list) >= 2

ExecuteLeavesRegions ==
    ExecWritten => ret.value.cfg_tr = ExecConfig.value.tectonic_regions

(***************************************************************************)
(* Claims about update_config_regions (SpecUpdate).                        *)
(***************************************************************************)
UpdateDone == pc = "done" /\ args.fn = "update_config_regions"

UpdateReturned == UpdateDone /\ ret.raised = "none"

\* C24: an evaluation never modifies the tectonic-region configuration it
\* was given: after update_config_regions (and after the override step of
\* execute, see ExecuteLeavesRegions) the settings of tectonic_regions hold
\* the values they held before the call.
C24_UpdateLeavesRegions ==
    UpdateReturned => ret.value.tectonic_regions = args.config.tectonic_regions

\* the event is inside no layer: the configuration is returned as it was
UnchangedOutsideLayers ==
    (UpdateReturned /\ \A l \in DOMAIN args.layer_distances : args.layer_distances[l] # Zero) =>
        ret.value = args.config

\* a configured layer without a file, reached by the loop: NameError
UpdateNameErrorReached ==
    /\ UpdateDone
    /\ ret.raised = "NameError"

(***************************************************************************)
(* Claims about the version history of AssembleModule.execute              *)
(* (SpecAssemble).                                                         *)
(***************************************************************************)
\* the history lines in shake_data.hdf of the event directory dir: none
\* without the file or without a history in it
HistoryLines(dir) ==
    IF dir.shake_data.exists /\ "history" \in DOMAIN dir.shake_data.version_history
    THEN dir.shake_data.version_history.history
    ELSE << >>

AssembleRuns == pc = "call" /\ args.fn = "AssembleModule.execute"

\* the line this run writes, with the given version
RunLine(version) == <<args.timestamp, args.originator, version, assemble_comment(args)>>

BackupHistoryGrows ==
    (pc = "done" /\ args.fn = "AssembleModule.execute" /\ args.backups # {}
        /\ ret.raised = "none") =>
        /\ Len(HistoryLines(datadir)) = Cardinality(args.backups) + 1
        /\ HistoryLines(datadir)[Len(HistoryLines(datadir))][3] = Cardinality(args.backups) + 1
====
